---- MODULE Spec2Model ----
(***************************************************************************)
(* Lazy asset loading of xiangnuans/typing-game.                           *)
(*                                                                         *)
(* Three lazy-load controllers exist in the repository:                    *)
(*   "SetHook"     useLazyLoad of src/hooks/useIntersectionObserver.ts     *)
(*                 (module-level imageCache = Set of URLs),                *)
(*   "WeakMapHook" useLazyLoad of src/hooks/useLazyLoad.ts                 *)
(*                 (module-level imageCache = WeakMap element -> URL),     *)
(*   "LazyPicture" the component of src/components/Navbar.tsx              *)
(*                 (module-level imageCache = Map URL -> true).            *)
(* A behaviour runs a page whose controllers are all of one kind (impl),   *)
(* chosen in Init together with the configuration.                         *)
(*                                                                         *)
(* React: a state setter called for an unmounted component changes nothing *)
(* that can be observed (SetState); refs, module-level caches, timers and  *)
(* Image objects are plain JavaScript and are not tied to the mount.       *)
(* Refs of host elements are detached before useEffect cleanups run, so    *)
(* imgRef.current is null in a cleanup that runs at unmount.               *)
(*                                                                         *)
(* The module also holds the TodoList component of src/unnamed/part_002    *)
(* (SpecTodo) and the home page of src/app/page.tsx with its TypingGame    *)
(* and ProfileEdit components and the /api/profile route (SpecHome).       *)
(***************************************************************************)
EXTENDS Integers, FiniteSets, Sequences, Bags, TLC

VARIABLES
    impl,            \* which implementation the page's controllers use
    retryCount,      \* config retryCount (hooks) / prop maxRetries (LazyPicture)
    src,             \* per controller: data-src / fallbackDataSrc ("" = none)
    mountState,      \* per controller: "init" | "mounted" | "unmounted"
    status,          \* per controller: LoadStatus
    imageUrl,        \* per controller: imageUrl state (hooks)
    loadProgress,    \* per controller: loadProgress state (hooks)
    retryAttemptsRef,\* per controller: retryAttemptsRef.current (hooks)
    retryCountState, \* per controller: retryCount state (LazyPicture)
    isIntersecting,  \* per controller: last isIntersecting reported by the observer
    observing,       \* per controller: the IntersectionObserver observes the element
    inflight,        \* per controller: bag of Image objects whose fetch is in flight
    timers,          \* per controller: bag of pending setTimeout retry callbacks
    imageCache,      \* Set / Map keys: URLs marked loaded
    imageCacheWeak,  \* WeakMap: per element (controller) the URL stored, "" = none
    netFetches,      \* history: per controller, number of network fetches issued
    failures,        \* history: per controller, failed attempts since the counter was last reset
    op,              \* history: the last operation, its controller and that
                     \* controller's status before it
    tallied,         \* the tally is kept in this behaviour
    tally,           \* history: per controller, the network fetches issued and
                     \* the retry timers set since its last visibility event
                     \* or retryLoad call
    priority,        \* per controller: LazyImage prop priority
    preloaded,       \* per controller: the priority effect has created its Image
    ioSupported,     \* 'IntersectionObserver' in window
    inBounds,        \* per controller: the region lies within the window bounds
                     \* expanded by preloadDistance (tracked where scrolling
                     \* is modelled; elsewhere the reports of the observer
                     \* and of checkIfInViewport are inputs)
    listening,       \* per controller: its throttled scroll listener is registered
    throttleOpen,    \* per controller: now - lastCall >= 200 in its throttle
    staleObserving,  \* per controller: observers no longer held in observerRef
                     \* that still observe a region of the controller
    now,             \* Date.now()
    lastCall,        \* lastCall of the closure of one throttle(func, delay)
    config,          \* the config object the caller passes to useLazyLoad
    callLog,         \* history: the times of the calls of the throttled function
    runLog,          \* history: the times at which func was executed
    profileTable,    \* the rows of table profile of game.db
    sqliteSequence,  \* the largest id AUTOINCREMENT has given out for profile
    lastPost,        \* history: << >> or <<body of the last POST /api/profile>>
    response,        \* << >> or <<the JSON of the last response to GET /api/profile>>
    visHook,         \* which visibility hook a stand-alone component uses
    once,            \* its option once
    visMount,        \* "init" | "mounted" | "unmounted"
    targetRef,       \* targetRef.current: an element, or NoElement for null
    observedTargets, \* the elements the observer in observerRef.current observes
    visibleFlag,     \* its state isIntersecting / isVisible
    firedOnce,       \* history: an intersecting entry has been reported
    visOp,           \* history: the last step of the visibility hook
    state,           \* TodoList: state (items, history, historyIndex, editingId)
    filter,          \* TodoList: filter
    searchTerm,      \* TodoList: searchTerm
    actions,         \* history: the number of handleAction calls so far
    todoOp,          \* history: the last TodoList handler, the items before
                     \* it, and the rows of its drag and drop
    binding,         \* how the build binds TypingGame's callbacks
    strictMode,      \* the page runs under React StrictMode in development
    home,            \* HomePage: profile, isLoading, isEditingProfile, and
                     \* formData of its ProfileEdit
    game,            \* TypingGame: timeLeft, score, gameOver, its mount, its
                     \* intervals and the closure of its startNewGame
    requests,        \* bag of the requests to /api/profile in flight
    sent,            \* history: the number of requests sent so far
    leaked           \* the intervals of unmounted TypingGame instances

\* the state of the page around the load state machine
envVars == <<priority, preloaded, ioSupported, inBounds, listening,
             throttleOpen, staleObserving>>

\* the state outside the controllers of the page
auxVars == <<config, now, lastCall, callLog, runLog,
             profileTable, sqliteSequence, lastPost, response,
             visHook, once, visMount, targetRef, observedTargets, visibleFlag,
             firedOnce, visOp,
             state, filter, searchTerm, actions, todoOp,
             binding, strictMode, home, game, requests, sent, leaked>>

\* the home page, its game and its requests
homeVars == <<binding, strictMode, home, game, requests, sent, leaked>>
\* the todo list
todoVars == <<state, filter, searchTerm, actions, todoOp>>
\* the stand-alone visibility hook
visVars == <<visHook, once, visMount, targetRef, observedTargets, visibleFlag,
             firedOnce, visOp>>
\* the profile database and the traffic of its API
dbVars == <<profileTable, sqliteSequence, lastPost, response>>
\* the throttle and the configuration
throttleVars == <<config, now, lastCall, callLog, runLog>>

\* the state of the controllers and the history kept about them
loadVars == <<impl, retryCount, src, mountState, status, imageUrl, loadProgress,
              retryAttemptsRef, retryCountState, isIntersecting, observing,
              inflight, timers, imageCache, imageCacheWeak, netFetches,
              failures, op, tallied, tally>>

vars == <<impl, retryCount, src, mountState, status, imageUrl, loadProgress,
          retryAttemptsRef, retryCountState, isIntersecting, observing,
          inflight, timers, imageCache, imageCacheWeak, netFetches, failures, op,
          tallied, tally,
          priority, preloaded, ioSupported, inBounds, listening, throttleOpen,
          staleObserving, config, now, lastCall, callLog, runLog,
          profileTable, sqliteSequence, lastPost, response,
          visHook, once, visMount, targetRef, observedTargets, visibleFlag,
          firedOnce, visOp,
          state, filter, searchTerm, actions, todoOp,
          binding, strictMode, home, game, requests, sent, leaked>>

----
\* Bounds of the model
MaxRetryCount == 2      \* retryCount / maxRetries is drawn from 0..MaxRetryCount
MaxPending == 2         \* in-flight fetches plus pending timers, all controllers
MaxFetches == 3         \* network fetches issued in a behaviour, all controllers
MaxCalls == 4           \* calls of the throttled function in a behaviour
MaxTicks == 6           \* clock steps in a behaviour
MaxScore == 2           \* highscore of a POST body is drawn from 0..MaxScore
MaxRows == 3            \* rows of table profile
MaxActions == 1         \* handleAction calls of TodoList in a behaviour
MaxRequests == 5        \* requests to /api/profile sent in a behaviour

Controllers == {1, 2}
Impls == {"SetHook", "WeakMapHook", "LazyPicture"}
Hooks == {"SetHook", "WeakMapHook"}
Url == "a"
OtherUrl == "b"
ProgressValues == {50}

\* the delay of the throttle of the scroll fallback (ms)
ThrottleDelay == 200
\* Date.now() when the page is loaded: milliseconds since 1970, far more than
\* any delay
Epoch == 5 * ThrottleDelay
\* the grain of the clock: two steps make one delay
ClockStep == ThrottleDelay \div 2

\* the number of history entries handleAction keeps
HistoryLimit == 10

\* defaultConfig / LazyPicture props
RetryDelay == 1000
DefaultRetryCount == 3

\* A config object maps the keys it owns to {} (undefined) or {v} (the value
\* v); a key it does not own is not in its DOMAIN.
defaultConfig == [retryCount |-> {DefaultRetryCount}, retryDelay |-> {RetryDelay}]

\* { ...defaultConfig, ...cfg }: every own key of cfg overrides, also one
\* whose value is undefined
mergedConfig(cfg) ==
    [k \in DOMAIN defaultConfig \cup DOMAIN cfg |->
        IF k \in DOMAIN cfg THEN cfg[k] ELSE defaultConfig[k]]

\* x ?? d
Coalesce(x, d) == IF x = {} THEN d ELSE CHOOSE v \in x : TRUE

\* retryCount ?? 0 and retryDelay ?? 1000 of the error listener
EffectiveRetryCount(cfg) == Coalesce(mergedConfig(cfg)["retryCount"], 0)
EffectiveRetryDelay(cfg) == Coalesce(mergedConfig(cfg)["retryDelay"], RetryDelay)

\* the config LazyImage builds from its props: every key is owned, with the
\* value undefined for a prop that was not given
LazyImageConfig(props) ==
    [retryCount |-> props.retryCount, retryDelay |-> props.retryDelay]
Placeholder == "placeholder"
ErrorImage == "errorImage"

RECURSIVE Pow2(_)
Pow2(n) == IF n <= 0 THEN 1 ELSE 2 * Pow2(n - 1)

RECURSIVE Sum(_, _)
Sum(f, S) == IF S = {} THEN 0
             ELSE LET x == CHOOSE y \in S : TRUE IN f[x] + Sum(f, S \ {x})

Pending(c) == BagCardinality(inflight[c]) + BagCardinality(timers[c])
TotalPending == Sum([c \in Controllers |-> Pending(c)], Controllers)
TotalFetches == Sum(netFetches, Controllers)

\* the record kept in op for operation n of controller c: the status before
\* it and whether it issued a network fetch
Op(n, c) == [name |-> n, c |-> c, from |-> status[c],
             fetched |-> netFetches'[c] # netFetches[c]]

\* the operations that start a logical load: a visibility event (observer
\* report, position sample in bounds) and retryLoad
Triggers == {"visible", "retryLoad"}

\* the tally of controller c after its operation just taken: started again
\* from 0 by a trigger, then one more fetch for a fetch issued and one more
\* timer for a timer set
Tally(c) ==
    LET base == IF op'.name \in Triggers
                THEN [fetches |-> 0, timers |-> 0] ELSE tally[c]
        set  == BagCardinality(timers'[c]) - BagCardinality(timers[c])
    IN IF ~tallied THEN tally
       ELSE [tally EXCEPT ![c] =
               [fetches |-> base.fetches + (netFetches'[c] - netFetches[c]),
                timers  |-> base.timers + (IF set > 0 THEN set ELSE 0)]]

\* React state setter: no observable effect once the component is unmounted
SetState(var, c, v) ==
    IF mountState[c] # "unmounted" THEN [var EXCEPT ![c] = v] ELSE var

\* imgRef.current is the rendered <img> from the commit that mounts the
\* component (before its effects run) until the unmount, null afterwards
ImgRefCurrent(c) == mountState[c] # "unmounted"

\* the elements a visibility hook can be attached to; NoElement is null
Elements == {"el1", "el2"}
NoElement == "null"

\* the visibility hooks after construction (initialLoad is not given)
InitVisibility ==
    /\ visMount = "init"
    /\ targetRef = NoElement
    /\ observedTargets = {}
    /\ visibleFlag = FALSE
    /\ firedOnce = FALSE
    /\ visOp = "init"

\* the images of a page that shows one image: the first controller has it,
\* the second has it or no data-src (fallbackDataSrc is a required prop)
InitSrc ==
    /\ src \in [Controllers -> {"", Url}]
    /\ src[1] = Url
    /\ impl = "LazyPicture" => src = [c \in Controllers |-> Url]

\* movedItem when splice(fromIndex, 1) removes nothing
Undefined == [id |-> "undefined", text |-> "undefined",
              completed |-> FALSE, selected |-> FALSE]

\* the state of TodoList's useState at construction
FreshState == [items |-> << >>, history |-> << >>, historyIndex |-> -1,
               editingId |-> "null"]

\* the state after the mount effect has read saved from localStorage
Loaded(saved) == [FreshState EXCEPT !.items = saved]

\* TodoList on a first visit
InitTodoFresh ==
    /\ state = FreshState
    /\ filter = "all"
    /\ searchTerm = ""
    /\ actions = 0
    /\ todoOp = [name |-> "init", before |-> << >>, a |-> Undefined,
                 b |-> Undefined]

\* useState(60) / setTimeLeft(60) of TypingGame
StartTime == 60

\* DefaultProfile of HomePage, without the id and avatarUrl that nothing reads
DefaultProfile == [username |-> "", email |-> "", phone |-> "", highscore |-> 0]

\* fetchProfile's request
GetRequest == [kind |-> "GET", by |-> "fetchProfile", body |-> DefaultProfile]

\* the bag of n requests r
Copies(r, n) == IF n = 0 THEN EmptyBag ELSE [x \in {r} |-> n]

\* HomePage after it has mounted: its mount effect has called fetchProfile
\* (twice under StrictMode), <Loading /> is displayed
InitHomeState ==
    /\ home = [profile |-> DefaultProfile, isLoading |-> TRUE,
               isEditingProfile |-> FALSE, formData |-> DefaultProfile]
    /\ game = [mount |-> "init", timeLeft |-> StartTime, score |-> 0,
               gameOver |-> FALSE, intervals |-> << >>,
               startNewGame |-> [score |-> 0, profile |-> DefaultProfile]]
    /\ requests = Copies(GetRequest, IF strictMode THEN 2 ELSE 1)
    /\ sent = BagCardinality(requests)
    /\ leaked = 0

\* the home page of a production build that compiles const to var
InitHomeBuilt ==
    /\ binding = "var"
    /\ strictMode = FALSE
    /\ InitHomeState

\* the lazy-load controllers, the throttle, the database and the visibility
\* hook after construction, but for the images, the configuration and the
\* options of the visibility hook
InitLazy ==
    /\ impl \in Impls
    /\ mountState = [c \in Controllers |-> "init"]
    /\ status = [c \in Controllers |-> "idle"]
    /\ imageUrl = [c \in Controllers |-> Placeholder]
    /\ loadProgress = [c \in Controllers |-> 0]
    /\ retryAttemptsRef = [c \in Controllers |-> 0]
    /\ retryCountState = [c \in Controllers |-> 0]
    /\ isIntersecting = [c \in Controllers |-> FALSE]
    /\ observing = [c \in Controllers |-> FALSE]
    /\ inflight = [c \in Controllers |-> EmptyBag]
    /\ timers = [c \in Controllers |-> EmptyBag]
    /\ imageCache = {}
    /\ imageCacheWeak = [c \in Controllers |-> ""]
    /\ netFetches = [c \in Controllers |-> 0]
    /\ failures = [c \in Controllers |-> 0]
    /\ op = [name |-> "init", c |-> 0, from |-> "idle", fetched |-> FALSE]
    /\ tally = [c \in Controllers |-> [fetches |-> 0, timers |-> 0]]
    /\ preloaded = [c \in Controllers |-> FALSE]
    /\ listening = [c \in Controllers |-> FALSE]
    /\ throttleOpen = [c \in Controllers |-> TRUE]
    /\ staleObserving = [c \in Controllers |-> 0]
    /\ now = Epoch
    /\ lastCall = 0
    /\ callLog = << >>
    /\ runLog = << >>
    /\ profileTable = {}
    /\ sqliteSequence = 0
    /\ lastPost = << >>
    /\ response = << >>
    /\ InitVisibility

\* the page after construction, but for its images, its configuration and
\* the options of its visibility hook
InitPage == InitLazy /\ InitTodoFresh /\ InitHomeBuilt

\* the page whose visibility hook is the one LazyPicture calls:
\* useIntersectionObserver({ threshold: 0.1 }), once = false
InitState ==
    /\ InitPage
    /\ tallied = FALSE
    /\ visHook = "useIntersectionObserver"
    /\ once = FALSE

\* the load state machine after construction, for every retryCount given
\* explicitly by the caller
InitLoad ==
    /\ InitState /\ InitSrc
    /\ retryCount \in 0..MaxRetryCount
    /\ config = [retryCount |-> {retryCount}]

\* a browser with IntersectionObserver, no priority images
Init ==
    /\ InitLoad
    /\ priority = [c \in Controllers |-> FALSE]
    /\ ioSupported = TRUE
    /\ inBounds = [c \in Controllers |-> FALSE]

----
(***************************************************************************)
(* useLazyLoad of src/hooks/useIntersectionObserver.ts ("SetHook")         *)
(***************************************************************************)

\* One Image object whose fetch is in flight: prog is the last percentage its
\* progress events reported, cap the retryCount its loadImage closure captured
\* (LazyPicture only).
Fetch(p, k) == [prog |-> p, cap |-> k]
\* One pending retry timer: its delay, the ordinal n of the retry it stands
\* for (history), and the retryCount captured by the closure that set it.
Timer(d, n, k) == [delay |-> d, n |-> n, cap |-> k]

\* loadImage(url), url = the controller's data-src; pendingOk is the bound on
\* the number of pending fetches and timers of the caller
loadImageSet(c, pendingOk) ==
    IF src[c] \in imageCache
    THEN /\ status' = SetState(status, c, "success")
         /\ imageUrl' = SetState(imageUrl, c, src[c])
         /\ loadProgress' = SetState(loadProgress, c, 100)
         /\ UNCHANGED <<inflight, netFetches>>
    ELSE /\ pendingOk /\ TotalFetches < MaxFetches
         /\ status' = SetState(status, c, "loading")
         /\ loadProgress' = SetState(loadProgress, c, 0)
         /\ inflight' = [inflight EXCEPT ![c] = @ (+) SetToBag({Fetch(0, 0)})]
         /\ netFetches' = [netFetches EXCEPT ![c] = @ + 1]
         /\ UNCHANGED imageUrl

\* a fallback function that loads but leaves its scroll listener registered
handleScrollSet_KeepsListener(c, isVisible) ==
    IF ImgRefCurrent(c) /\ isVisible
    THEN /\ IF src[c] # ""
            THEN loadImageSet(c, TotalPending < MaxPending)
            ELSE UNCHANGED <<status, imageUrl, loadProgress, inflight, netFetches>>
         /\ listening' = [listening EXCEPT ![c] = TRUE]
    ELSE UNCHANGED <<status, imageUrl, loadProgress, inflight, netFetches,
                     listening>>

\* the function wrapped by the throttle of the fallback, isVisible being the
\* result of its position test; removeEventListener follows a position within
\* the bounds whether or not data-src is set
handleScrollSet(c, isVisible) ==
    IF ImgRefCurrent(c) /\ isVisible
    THEN /\ IF src[c] # ""
            THEN loadImageSet(c, TotalPending < MaxPending)
            ELSE UNCHANGED <<status, imageUrl, loadProgress, inflight, netFetches>>
         /\ listening' = [listening EXCEPT ![c] = FALSE]
    ELSE UNCHANGED <<status, imageUrl, loadProgress, inflight, netFetches,
                     listening>>

\* an effect whose fallback registers the scroll listener without calling it
MountSet_NoInitialCheck(c) ==
    /\ impl = "SetHook" /\ mountState[c] = "init"
    /\ mountState' = [mountState EXCEPT ![c] = "mounted"]
    /\ IF ioSupported
       THEN /\ observing' = [observing EXCEPT ![c] = TRUE]
            /\ UNCHANGED listening
       ELSE /\ listening' = [listening EXCEPT ![c] = TRUE]
            /\ UNCHANGED observing
    /\ UNCHANGED <<status, imageUrl, loadProgress, inflight, netFetches,
                   throttleOpen>>
    /\ UNCHANGED <<impl, retryCount, src, retryAttemptsRef, retryCountState,
                   isIntersecting, timers, imageCache, imageCacheWeak, failures>>
    /\ UNCHANGED <<priority, preloaded, ioSupported, inBounds, staleObserving>>
    /\ UNCHANGED auxVars
    /\ op' = Op("mount", c)
    /\ tally' = Tally(c) /\ UNCHANGED tallied

\* the effect: with IntersectionObserver it creates the observer and observes
\* imgRef.current; without, it registers the throttled scroll listener and
\* calls it once, which starts the throttle window (lastCall = now)
MountSet(c) ==
    /\ impl = "SetHook" /\ mountState[c] = "init"
    /\ mountState' = [mountState EXCEPT ![c] = "mounted"]
    /\ IF ioSupported
       THEN /\ observing' = [observing EXCEPT ![c] = TRUE]
            /\ UNCHANGED <<status, imageUrl, loadProgress, inflight, netFetches,
                           listening, throttleOpen>>
       ELSE /\ IF ImgRefCurrent(c) /\ inBounds[c]
               THEN handleScrollSet(c, inBounds[c])
               ELSE /\ listening' = [listening EXCEPT ![c] = TRUE]
                    /\ UNCHANGED <<status, imageUrl, loadProgress, inflight,
                                   netFetches>>
            /\ throttleOpen' = [throttleOpen EXCEPT ![c] = FALSE]
            /\ UNCHANGED observing
    /\ UNCHANGED <<impl, retryCount, src, retryAttemptsRef, retryCountState,
                   isIntersecting, timers, imageCache, imageCacheWeak, failures>>
    /\ UNCHANGED <<priority, preloaded, ioSupported, inBounds, staleObserving>>
    /\ UNCHANGED auxVars
    /\ op' = Op(IF ioSupported \/ ~inBounds[c] THEN "mount" ELSE "visible", c)
    /\ tally' = Tally(c) /\ UNCHANGED tallied

\* an observer callback that also resets retryAttemptsRef
IntersectSet_ResetsCounter(c) ==
    /\ impl = "SetHook" /\ mountState[c] = "mounted"
    /\ observing[c] /\ ~isIntersecting[c]
    /\ isIntersecting' = [isIntersecting EXCEPT ![c] = TRUE]
    /\ retryAttemptsRef' = [retryAttemptsRef EXCEPT ![c] = 0]
    /\ IF ImgRefCurrent(c) /\ src[c] # ""
       THEN loadImageSet(c, TotalPending < MaxPending)
       ELSE UNCHANGED <<status, imageUrl, loadProgress, inflight, netFetches>>
    /\ UNCHANGED <<impl, retryCount, src, mountState,
                   retryCountState, observing, timers, imageCache,
                   imageCacheWeak, failures>>
    /\ UNCHANGED envVars
    /\ UNCHANGED auxVars
    /\ op' = Op("visible", c)
    /\ tally' = Tally(c) /\ UNCHANGED tallied

\* the observer callback receives an entry with isIntersecting = true
IntersectSet(c) ==
    /\ impl = "SetHook" /\ mountState[c] = "mounted"
    /\ observing[c] /\ ~isIntersecting[c]
    /\ isIntersecting' = [isIntersecting EXCEPT ![c] = TRUE]
    /\ IF ImgRefCurrent(c) /\ src[c] # ""
       THEN loadImageSet(c, TotalPending < MaxPending)
       ELSE UNCHANGED <<status, imageUrl, loadProgress, inflight, netFetches>>
    /\ UNCHANGED <<impl, retryCount, src, mountState, retryAttemptsRef,
                   retryCountState, observing, timers, imageCache,
                   imageCacheWeak, failures>>
    /\ UNCHANGED envVars
    /\ UNCHANGED auxVars
    /\ op' = Op("visible", c)
    /\ tally' = Tally(c) /\ UNCHANGED tallied

\* the observer callback receives an entry with isIntersecting = false
LeaveHook(c) ==
    /\ impl \in Hooks /\ mountState[c] = "mounted"
    /\ observing[c] /\ isIntersecting[c]
    /\ isIntersecting' = [isIntersecting EXCEPT ![c] = FALSE]
    /\ UNCHANGED <<impl, retryCount, src, mountState, status, imageUrl,
                   loadProgress, retryAttemptsRef, retryCountState, observing,
                   inflight, timers, imageCache, imageCacheWeak, netFetches,
                   failures>>
    /\ UNCHANGED envVars
    /\ UNCHANGED auxVars
    /\ op' = Op("hidden", c)
    /\ tally' = Tally(c) /\ UNCHANGED tallied

\* img 'progress' listener (lengthComputable): cumulative, so never below the
\* percentage the same Image reported before
ImgProgressSet(c, f, p) ==
    /\ impl = "SetHook" /\ BagIn(f, inflight[c])
    /\ p \in ProgressValues /\ p > f.prog
    /\ loadProgress' = SetState(loadProgress, c, p)
    /\ inflight' = [inflight EXCEPT ![c] =
                      (@ (-) SetToBag({f})) (+) SetToBag({Fetch(p, f.cap)})]
    /\ UNCHANGED <<impl, retryCount, src, mountState, status, imageUrl,
                   retryAttemptsRef, retryCountState, isIntersecting, observing,
                   timers, imageCache, imageCacheWeak, netFetches, failures>>
    /\ UNCHANGED envVars
    /\ UNCHANGED auxVars
    /\ op' = Op("progress", c)
    /\ tally' = Tally(c) /\ UNCHANGED tallied

\* a load listener that keeps only the last URL in the cache
ImgLoadSet_ReplacesCache(c, f) ==
    /\ impl = "SetHook" /\ BagIn(f, inflight[c])
    /\ inflight' = [inflight EXCEPT ![c] = @ (-) SetToBag({f})]
    /\ imageCache' = {src[c]}
    /\ status' = SetState(status, c, "success")
    /\ imageUrl' = SetState(imageUrl, c, src[c])
    /\ loadProgress' = SetState(loadProgress, c, 100)
    /\ observing' = IF observing[c] /\ ImgRefCurrent(c)
                    THEN [observing EXCEPT ![c] = FALSE] ELSE observing
    /\ UNCHANGED <<impl, retryCount, src, mountState, retryAttemptsRef,
                   retryCountState, isIntersecting, timers, imageCacheWeak,
                   netFetches, failures>>
    /\ UNCHANGED envVars
    /\ UNCHANGED auxVars
    /\ op' = Op("load", c)
    /\ tally' = Tally(c) /\ UNCHANGED tallied

\* img 'load' listener
ImgLoadSet(c, f) ==
    /\ impl = "SetHook" /\ BagIn(f, inflight[c])
    /\ inflight' = [inflight EXCEPT ![c] = @ (-) SetToBag({f})]
    /\ imageCache' = imageCache \cup {src[c]}
    /\ status' = SetState(status, c, "success")
    /\ imageUrl' = SetState(imageUrl, c, src[c])
    /\ loadProgress' = SetState(loadProgress, c, 100)
    /\ observing' = IF observing[c] /\ ImgRefCurrent(c)
                    THEN [observing EXCEPT ![c] = FALSE] ELSE observing
    /\ UNCHANGED <<impl, retryCount, src, mountState, retryAttemptsRef,
                   retryCountState, isIntersecting, timers, imageCacheWeak,
                   netFetches, failures>>
    /\ UNCHANGED envVars
    /\ UNCHANGED auxVars
    /\ op' = Op("load", c)
    /\ tally' = Tally(c) /\ UNCHANGED tallied

\* the delay of the retry scheduled when the counter has become n
BackoffDelay(n) == RetryDelay * Pow2(n - 1)

\* an error listener that schedules a retry whatever the counter is
ImgErrorSet_AlwaysRetries(c, f) ==
    /\ impl = "SetHook" /\ BagIn(f, inflight[c])
    /\ inflight' = [inflight EXCEPT ![c] = @ (-) SetToBag({f})]
    /\ failures' = [failures EXCEPT ![c] = @ + 1]
    /\ retryAttemptsRef' = [retryAttemptsRef EXCEPT ![c] = @ + 1]
    /\ timers' = [timers EXCEPT ![c] = @ (+) SetToBag({
           Timer(BackoffDelay(retryAttemptsRef[c] + 1), failures[c] + 1, 0)})]
    /\ UNCHANGED <<status, imageUrl, loadProgress>>
    /\ UNCHANGED <<impl, retryCount, src, mountState, retryCountState,
                   isIntersecting, observing, imageCache, imageCacheWeak,
                   netFetches>>
    /\ UNCHANGED envVars
    /\ UNCHANGED auxVars
    /\ op' = Op("error", c)
    /\ tally' = Tally(c) /\ UNCHANGED tallied

\* img 'error' listener
ImgErrorSet(c, f) ==
    /\ impl = "SetHook" /\ BagIn(f, inflight[c])
    /\ inflight' = [inflight EXCEPT ![c] = @ (-) SetToBag({f})]
    /\ failures' = [failures EXCEPT ![c] = @ + 1]
    /\ IF retryAttemptsRef[c] < retryCount
       THEN /\ retryAttemptsRef' = [retryAttemptsRef EXCEPT ![c] = @ + 1]
            /\ timers' = [timers EXCEPT ![c] = @ (+) SetToBag({
                   Timer(BackoffDelay(retryAttemptsRef[c] + 1), failures[c] + 1, 0)})]
            /\ UNCHANGED <<status, imageUrl, loadProgress>>
       ELSE /\ status' = SetState(status, c, "error")
            /\ imageUrl' = SetState(imageUrl, c, ErrorImage)
            /\ loadProgress' = SetState(loadProgress, c, 0)
            /\ UNCHANGED <<retryAttemptsRef, timers>>
    /\ UNCHANGED <<impl, retryCount, src, mountState, retryCountState,
                   isIntersecting, observing, imageCache, imageCacheWeak,
                   netFetches>>
    /\ UNCHANGED envVars
    /\ UNCHANGED auxVars
    /\ op' = Op("error", c)
    /\ tally' = Tally(c) /\ UNCHANGED tallied

\* the setTimeout callback of the error listener: loadImage(url)
RetryTimerSet(c, t) ==
    /\ impl = "SetHook" /\ BagIn(t, timers[c])
    /\ timers' = [timers EXCEPT ![c] = @ (-) SetToBag({t})]
    /\ loadImageSet(c, TRUE)
    /\ UNCHANGED <<impl, retryCount, src, mountState, retryAttemptsRef,
                   retryCountState, isIntersecting, observing, imageCache,
                   imageCacheWeak, failures>>
    /\ UNCHANGED envVars
    /\ UNCHANGED auxVars
    /\ op' = Op("timer", c)
    /\ tally' = Tally(c) /\ UNCHANGED tallied

\* retryLoad that forgets to reset retryAttemptsRef
RetryLoadSet_KeepsCounter(c) ==
    /\ impl = "SetHook" /\ mountState[c] = "mounted"
    /\ failures' = [failures EXCEPT ![c] = 0]
    /\ IF ImgRefCurrent(c) /\ src[c] # ""
       THEN loadImageSet(c, TotalPending < MaxPending)
       ELSE UNCHANGED <<status, imageUrl, loadProgress, inflight, netFetches>>
    /\ UNCHANGED <<impl, retryCount, src, mountState, retryAttemptsRef,
                   retryCountState, isIntersecting, observing, timers,
                   imageCache, imageCacheWeak>>
    /\ UNCHANGED envVars
    /\ UNCHANGED auxVars
    /\ op' = Op("retryLoad", c)
    /\ tally' = Tally(c) /\ UNCHANGED tallied

\* retryLoad, reachable through the Retry button and the imperative handle
RetryLoadSet(c) ==
    /\ impl = "SetHook" /\ mountState[c] = "mounted"
    /\ retryAttemptsRef' = [retryAttemptsRef EXCEPT ![c] = 0]
    /\ failures' = [failures EXCEPT ![c] = 0]
    /\ IF ImgRefCurrent(c) /\ src[c] # ""
       THEN loadImageSet(c, TotalPending < MaxPending)
       ELSE UNCHANGED <<status, imageUrl, loadProgress, inflight, netFetches>>
    /\ UNCHANGED <<impl, retryCount, src, mountState, retryCountState,
                   isIntersecting, observing, timers, imageCache,
                   imageCacheWeak>>
    /\ UNCHANGED envVars
    /\ UNCHANGED auxVars
    /\ op' = Op("retryLoad", c)
    /\ tally' = Tally(c) /\ UNCHANGED tallied

\* unmount: the effect cleanup finds imgRef.current null and unobserves
\* nothing (the fallback's cleanup removes the scroll listener); no timer is
\* cleared and no Image listener removed
UnmountSet(c) ==
    /\ impl = "SetHook" /\ mountState[c] = "mounted"
    /\ mountState' = [mountState EXCEPT ![c] = "unmounted"]
    /\ observing' = IF observing[c] /\ FALSE
                    THEN [observing EXCEPT ![c] = FALSE] ELSE observing
    /\ listening' = [listening EXCEPT ![c] = FALSE]
    /\ UNCHANGED <<impl, retryCount, src, status, imageUrl, loadProgress,
                   retryAttemptsRef, retryCountState, isIntersecting, inflight,
                   timers, imageCache, imageCacheWeak, netFetches, failures>>
    /\ UNCHANGED <<priority, preloaded, ioSupported, inBounds, throttleOpen,
                   staleObserving>>
    /\ UNCHANGED auxVars
    /\ op' = Op("unmount", c)
    /\ tally' = Tally(c) /\ UNCHANGED tallied

\* a scroll event of the window after which the region of c lies within the
\* expanded bounds (b) or outside: the throttled listener of c, if registered,
\* calls its function only when 200 ms have passed since the last call. A
\* scroll that neither moves the region across the bounds nor meets a
\* listener of c changes nothing.
ScrollSet(c, b) ==
    /\ impl = "SetHook" /\ mountState[c] = "mounted"
    /\ listening[c] \/ b # inBounds[c]
    /\ inBounds' = [inBounds EXCEPT ![c] = b]
    /\ IF listening[c] /\ throttleOpen[c]
       THEN /\ handleScrollSet(c, b)
            /\ throttleOpen' = [throttleOpen EXCEPT ![c] = FALSE]
       ELSE UNCHANGED <<status, imageUrl, loadProgress, inflight, netFetches,
                        listening, throttleOpen>>
    /\ UNCHANGED <<impl, retryCount, src, mountState, retryAttemptsRef,
                   retryCountState, isIntersecting, observing, timers,
                   imageCache, imageCacheWeak, failures>>
    /\ UNCHANGED <<priority, preloaded, ioSupported, staleObserving>>
    /\ UNCHANGED auxVars
    /\ op' = Op(IF listening[c] /\ throttleOpen[c] /\ b
                THEN "visible" ELSE "scroll", c)
    /\ tally' = Tally(c) /\ UNCHANGED tallied

\* 200 ms have passed since the throttle of the registered listener of c
\* last called its function
ThrottleElapse(c) ==
    /\ impl \in Hooks /\ listening[c] /\ ~throttleOpen[c]
    /\ throttleOpen' = [throttleOpen EXCEPT ![c] = TRUE]
    /\ UNCHANGED <<impl, retryCount, src, mountState, status, imageUrl,
                   loadProgress, retryAttemptsRef, retryCountState,
                   isIntersecting, observing, inflight, timers, imageCache,
                   imageCacheWeak, netFetches, failures>>
    /\ UNCHANGED <<priority, preloaded, ioSupported, inBounds, listening,
                   staleObserving>>
    /\ UNCHANGED auxVars
    /\ op' = Op("elapse", c)
    /\ tally' = Tally(c) /\ UNCHANGED tallied

\* the observer reports the region of c, which lies within the bounds, as
\* intersecting (its first report after observe() included)
ReportSet(c) == ioSupported /\ inBounds[c] /\ IntersectSet(c)

\* the observer reports the region of c, which lies outside, as not
\* intersecting
ReportLeaveHook(c) == ioSupported /\ ~inBounds[c] /\ LeaveHook(c)

\* the effect re-run after a change of root, rootMargin, threshold or
\* preloadDistance, with a cleanup that leaves the old observer observing
OptionsChangeSet_KeepsOld(c) ==
    /\ impl = "SetHook" /\ mountState[c] = "mounted" /\ ioSupported
    /\ staleObserving' = [staleObserving EXCEPT ![c] =
                             @ + (IF observing[c] THEN 1 ELSE 0)]
    /\ observing' = [observing EXCEPT ![c] = ImgRefCurrent(c)]
    /\ isIntersecting' = [isIntersecting EXCEPT ![c] = FALSE]
    /\ UNCHANGED <<impl, retryCount, src, mountState, status, imageUrl,
                   loadProgress, retryAttemptsRef, retryCountState, inflight,
                   timers, imageCache, imageCacheWeak, netFetches, failures>>
    /\ UNCHANGED <<priority, preloaded, ioSupported, inBounds, listening,
                   throttleOpen>>
    /\ UNCHANGED auxVars
    /\ op' = Op("options", c)
    /\ tally' = Tally(c) /\ UNCHANGED tallied

\* the effect re-run after a change of root, rootMargin, threshold or
\* preloadDistance of a mounted component: the cleanup unobserves
\* imgRef.current on the old observer, the effect creates a new observer,
\* which has reported nothing yet, and observes imgRef.current
OptionsChangeSet(c) ==
    /\ impl = "SetHook" /\ mountState[c] = "mounted" /\ ioSupported
    /\ staleObserving' = [staleObserving EXCEPT ![c] =
                             @ + (IF observing[c] /\ ~ImgRefCurrent(c)
                                  THEN 1 ELSE 0)]
    /\ observing' = [observing EXCEPT ![c] = ImgRefCurrent(c)]
    /\ isIntersecting' = [isIntersecting EXCEPT ![c] = FALSE]
    /\ UNCHANGED <<impl, retryCount, src, mountState, status, imageUrl,
                   loadProgress, retryAttemptsRef, retryCountState, inflight,
                   timers, imageCache, imageCacheWeak, netFetches, failures>>
    /\ UNCHANGED <<priority, preloaded, ioSupported, inBounds, listening,
                   throttleOpen>>
    /\ UNCHANGED auxVars
    /\ op' = Op("options", c)
    /\ tally' = Tally(c) /\ UNCHANGED tallied

NextSet ==
    \E c \in Controllers :
        \/ MountSet(c)
        \/ IntersectSet(c)
        \/ LeaveHook(c)
        \/ \E f \in BagToSet(inflight[c]) :
              \/ ImgLoadSet(c, f)
              \/ ImgErrorSet(c, f)
              \/ \E p \in ProgressValues : ImgProgressSet(c, f, p)
        \/ \E t \in BagToSet(timers[c]) : RetryTimerSet(c, t)
        \/ RetryLoadSet(c)
        \/ UnmountSet(c)

----
(***************************************************************************)
(* useLazyLoad of src/hooks/useLazyLoad.ts ("WeakMapHook"), the hook the   *)
(* LazyImage component imports                                             *)
(***************************************************************************)

\* a loadImage() that does not return when data-src is empty
loadImageWeak_NoUrlGuard(c, pendingOk) ==
    IF ~ImgRefCurrent(c)
    THEN UNCHANGED <<status, imageUrl, loadProgress, inflight, netFetches>>
    ELSE IF imageCacheWeak[c] = src[c]
    THEN /\ status' = SetState(status, c, "success")
         /\ imageUrl' = SetState(imageUrl, c, src[c])
         /\ loadProgress' = SetState(loadProgress, c, 100)
         /\ UNCHANGED <<inflight, netFetches>>
    ELSE /\ pendingOk /\ TotalFetches < MaxFetches
         /\ status' = SetState(status, c, "loading")
         /\ loadProgress' = SetState(loadProgress, c, 0)
         /\ inflight' = [inflight EXCEPT ![c] = @ (+) SetToBag({Fetch(0, 0)})]
         /\ netFetches' = [netFetches EXCEPT ![c] = @ + 1]
         /\ UNCHANGED imageUrl

\* loadImage(): reads imgRef.current and its data-src itself
loadImageWeak(c, pendingOk) ==
    IF ~ImgRefCurrent(c) \/ src[c] = ""
    THEN UNCHANGED <<status, imageUrl, loadProgress, inflight, netFetches>>
    ELSE IF imageCacheWeak[c] = src[c]
    THEN /\ status' = SetState(status, c, "success")
         /\ imageUrl' = SetState(imageUrl, c, src[c])
         /\ loadProgress' = SetState(loadProgress, c, 100)
         /\ UNCHANGED <<inflight, netFetches>>
    ELSE /\ pendingOk /\ TotalFetches < MaxFetches
         /\ status' = SetState(status, c, "loading")
         /\ loadProgress' = SetState(loadProgress, c, 0)
         /\ inflight' = [inflight EXCEPT ![c] = @ (+) SetToBag({Fetch(0, 0)})]
         /\ netFetches' = [netFetches EXCEPT ![c] = @ + 1]
         /\ UNCHANGED imageUrl

\* the effects of the commit that mounts a LazyImage. The hook's effect:
\* checkIfInViewport() first (inViewport is what it returns); only when the
\* element is not in the viewport, the IntersectionObserver or, without
\* IntersectionObserver, the throttled scroll listener. Then LazyImage's
\* priority effect: a detached Image with src = dataSrc.
MountWeak(c, inViewport) ==
    /\ impl = "WeakMapHook" /\ mountState[c] = "init"
    /\ mountState' = [mountState EXCEPT ![c] = "mounted"]
    /\ IF inViewport
       THEN /\ loadImageWeak(c, TotalPending < MaxPending)
            /\ UNCHANGED <<observing, listening>>
       ELSE /\ IF ioSupported
               THEN /\ observing' = [observing EXCEPT ![c] = TRUE]
                    /\ UNCHANGED listening
               ELSE /\ listening' = [listening EXCEPT ![c] = TRUE]
                    /\ UNCHANGED observing
            /\ UNCHANGED <<status, imageUrl, loadProgress, inflight, netFetches>>
    /\ preloaded' = [preloaded EXCEPT ![c] = priority[c] /\ src[c] # ""]
    /\ UNCHANGED <<impl, retryCount, src, retryAttemptsRef, retryCountState,
                   isIntersecting, timers, imageCache, imageCacheWeak, failures>>
    /\ UNCHANGED <<priority, ioSupported, inBounds, throttleOpen, staleObserving>>
    /\ UNCHANGED auxVars
    /\ op' = Op(IF inViewport THEN "visible" ELSE "mount", c)
    /\ tally' = Tally(c) /\ UNCHANGED tallied

IntersectWeak(c) ==
    /\ impl = "WeakMapHook" /\ mountState[c] = "mounted"
    /\ observing[c] /\ ~isIntersecting[c]
    /\ isIntersecting' = [isIntersecting EXCEPT ![c] = TRUE]
    /\ loadImageWeak(c, TotalPending < MaxPending)
    /\ UNCHANGED <<impl, retryCount, src, mountState, retryAttemptsRef,
                   retryCountState, observing, timers, imageCache,
                   imageCacheWeak, failures>>
    /\ UNCHANGED envVars
    /\ UNCHANGED auxVars
    /\ op' = Op("visible", c)
    /\ tally' = Tally(c) /\ UNCHANGED tallied

ImgProgressWeak(c, f, p) ==
    /\ impl = "WeakMapHook" /\ BagIn(f, inflight[c])
    /\ p \in ProgressValues /\ p > f.prog
    /\ loadProgress' = SetState(loadProgress, c, p)
    /\ inflight' = [inflight EXCEPT ![c] =
                      (@ (-) SetToBag({f})) (+) SetToBag({Fetch(p, f.cap)})]
    /\ UNCHANGED <<impl, retryCount, src, mountState, status, imageUrl,
                   retryAttemptsRef, retryCountState, isIntersecting, observing,
                   timers, imageCache, imageCacheWeak, netFetches, failures>>
    /\ UNCHANGED envVars
    /\ UNCHANGED auxVars
    /\ op' = Op("progress", c)
    /\ tally' = Tally(c) /\ UNCHANGED tallied

ImgLoadWeak(c, f) ==
    /\ impl = "WeakMapHook" /\ BagIn(f, inflight[c])
    /\ inflight' = [inflight EXCEPT ![c] = @ (-) SetToBag({f})]
    /\ imageCacheWeak' = IF ImgRefCurrent(c)
                         THEN [imageCacheWeak EXCEPT ![c] = src[c]]
                         ELSE imageCacheWeak
    /\ status' = SetState(status, c, "success")
    /\ imageUrl' = SetState(imageUrl, c, src[c])
    /\ loadProgress' = SetState(loadProgress, c, 100)
    /\ observing' = IF observing[c] /\ ImgRefCurrent(c)
                    THEN [observing EXCEPT ![c] = FALSE] ELSE observing
    /\ UNCHANGED <<impl, retryCount, src, mountState, retryAttemptsRef,
                   retryCountState, isIntersecting, timers, imageCache,
                   netFetches, failures>>
    /\ UNCHANGED envVars
    /\ UNCHANGED auxVars
    /\ op' = Op("load", c)
    /\ tally' = Tally(c) /\ UNCHANGED tallied

ImgErrorWeak(c, f) ==
    /\ impl = "WeakMapHook" /\ BagIn(f, inflight[c])
    /\ inflight' = [inflight EXCEPT ![c] = @ (-) SetToBag({f})]
    /\ failures' = [failures EXCEPT ![c] = @ + 1]
    /\ IF retryAttemptsRef[c] < retryCount
       THEN /\ retryAttemptsRef' = [retryAttemptsRef EXCEPT ![c] = @ + 1]
            /\ timers' = [timers EXCEPT ![c] = @ (+) SetToBag({
                   Timer(BackoffDelay(retryAttemptsRef[c] + 1), failures[c] + 1, 0)})]
            /\ UNCHANGED <<status, imageUrl, loadProgress>>
       ELSE /\ status' = SetState(status, c, "error")
            /\ imageUrl' = SetState(imageUrl, c, ErrorImage)
            /\ loadProgress' = SetState(loadProgress, c, 0)
            /\ UNCHANGED <<retryAttemptsRef, timers>>
    /\ UNCHANGED <<impl, retryCount, src, mountState, retryCountState,
                   isIntersecting, observing, imageCache, imageCacheWeak,
                   netFetches>>
    /\ UNCHANGED envVars
    /\ UNCHANGED auxVars
    /\ op' = Op("error", c)
    /\ tally' = Tally(c) /\ UNCHANGED tallied

RetryTimerWeak(c, t) ==
    /\ impl = "WeakMapHook" /\ BagIn(t, timers[c])
    /\ timers' = [timers EXCEPT ![c] = @ (-) SetToBag({t})]
    /\ loadImageWeak(c, TRUE)
    /\ UNCHANGED <<impl, retryCount, src, mountState, retryAttemptsRef,
                   retryCountState, isIntersecting, observing, imageCache,
                   imageCacheWeak, failures>>
    /\ UNCHANGED envVars
    /\ UNCHANGED auxVars
    /\ op' = Op("timer", c)
    /\ tally' = Tally(c) /\ UNCHANGED tallied

RetryLoadWeak(c) ==
    /\ impl = "WeakMapHook" /\ mountState[c] = "mounted"
    /\ retryAttemptsRef' = [retryAttemptsRef EXCEPT ![c] = 0]
    /\ failures' = [failures EXCEPT ![c] = 0]
    /\ loadImageWeak(c, TotalPending < MaxPending)
    /\ UNCHANGED <<impl, retryCount, src, mountState, retryCountState,
                   isIntersecting, observing, timers, imageCache,
                   imageCacheWeak>>
    /\ UNCHANGED envVars
    /\ UNCHANGED auxVars
    /\ op' = Op("retryLoad", c)
    /\ tally' = Tally(c) /\ UNCHANGED tallied

\* unmount: the cleanup disconnects the observer, if one was created, or
\* removes the scroll listener
UnmountWeak(c) ==
    /\ impl = "WeakMapHook" /\ mountState[c] = "mounted"
    /\ mountState' = [mountState EXCEPT ![c] = "unmounted"]
    /\ observing' = [observing EXCEPT ![c] = FALSE]
    /\ listening' = [listening EXCEPT ![c] = FALSE]
    /\ UNCHANGED <<impl, retryCount, src, status, imageUrl, loadProgress,
                   retryAttemptsRef, retryCountState, isIntersecting, inflight,
                   timers, imageCache, imageCacheWeak, netFetches, failures>>
    /\ UNCHANGED <<priority, preloaded, ioSupported, inBounds, throttleOpen,
                   staleObserving>>
    /\ UNCHANGED auxVars
    /\ op' = Op("unmount", c)
    /\ tally' = Tally(c) /\ UNCHANGED tallied

\* the function wrapped by the throttle of the fallback
handleScrollWeak(c, inViewport) ==
    IF inViewport
    THEN /\ loadImageWeak(c, TotalPending < MaxPending)
         /\ listening' = [listening EXCEPT ![c] = FALSE]
    ELSE UNCHANGED <<status, imageUrl, loadProgress, inflight, netFetches,
                     listening>>

\* a scroll event of the window after which the region of c lies within the
\* expanded bounds (b) or outside
ScrollWeak(c, b) ==
    /\ impl = "WeakMapHook" /\ mountState[c] = "mounted"
    /\ listening[c] \/ b # inBounds[c]
    /\ inBounds' = [inBounds EXCEPT ![c] = b]
    /\ IF listening[c] /\ throttleOpen[c]
       THEN /\ handleScrollWeak(c, b)
            /\ throttleOpen' = [throttleOpen EXCEPT ![c] = FALSE]
       ELSE UNCHANGED <<status, imageUrl, loadProgress, inflight, netFetches,
                        listening, throttleOpen>>
    /\ UNCHANGED <<impl, retryCount, src, mountState, retryAttemptsRef,
                   retryCountState, isIntersecting, observing, timers,
                   imageCache, imageCacheWeak, failures>>
    /\ UNCHANGED <<priority, preloaded, ioSupported, staleObserving>>
    /\ UNCHANGED auxVars
    /\ op' = Op(IF listening[c] /\ throttleOpen[c] /\ b
                THEN "visible" ELSE "scroll", c)
    /\ tally' = Tally(c) /\ UNCHANGED tallied

\* the observer reports the region of c, which lies within the bounds, as
\* intersecting
ReportWeak(c) == ioSupported /\ inBounds[c] /\ IntersectWeak(c)

\* the effect re-run after a change of its dependencies: the cleanup of a
\* run that created an observer disconnects it, then the effect runs as at
\* mount (checkIfInViewport() first)
OptionsChangeWeak(c, inViewport) ==
    /\ impl = "WeakMapHook" /\ mountState[c] = "mounted" /\ ioSupported
    /\ IF inViewport
       THEN /\ loadImageWeak(c, TotalPending < MaxPending)
            /\ observing' = [observing EXCEPT ![c] = FALSE]
       ELSE /\ observing' = [observing EXCEPT ![c] = TRUE]
            /\ UNCHANGED <<status, imageUrl, loadProgress, inflight, netFetches>>
    /\ isIntersecting' = [isIntersecting EXCEPT ![c] = FALSE]
    /\ UNCHANGED <<impl, retryCount, src, mountState, retryAttemptsRef,
                   retryCountState, timers, imageCache, imageCacheWeak, failures>>
    /\ UNCHANGED envVars
    /\ UNCHANGED auxVars
    /\ op' = Op(IF inViewport THEN "visible" ELSE "options", c)
    /\ tally' = Tally(c) /\ UNCHANGED tallied

NextWeak ==
    \E c \in Controllers :
        \/ \E v \in BOOLEAN : MountWeak(c, v)
        \/ IntersectWeak(c)
        \/ \E f \in BagToSet(inflight[c]) :
              \/ ImgLoadWeak(c, f)
              \/ ImgErrorWeak(c, f)
              \/ \E p \in ProgressValues : ImgProgressWeak(c, f, p)
        \/ \E t \in BagToSet(timers[c]) : RetryTimerWeak(c, t)
        \/ RetryLoadWeak(c)
        \/ UnmountWeak(c)

----
(***************************************************************************)
(* LazyPicture of src/components/Navbar.tsx                                *)
(***************************************************************************)

\* loadImage as created by the render in which the retryCount state was k:
\* the closure reads k, not the current state
loadImagePicture(c, k, pendingOk) ==
    IF src[c] \in imageCache
    THEN /\ status' = SetState(status, c, "success")
         /\ UNCHANGED <<inflight, netFetches>>
    ELSE IF k >= retryCount
    THEN /\ status' = SetState(status, c, "error")
         /\ UNCHANGED <<inflight, netFetches>>
    ELSE /\ pendingOk /\ TotalFetches < MaxFetches
         /\ status' = SetState(status, c, "loading")
         /\ inflight' = [inflight EXCEPT ![c] = @ (+) SetToBag({Fetch(0, k)})]
         /\ netFetches' = [netFetches EXCEPT ![c] = @ + 1]

\* useIntersectionObserver's effect: the observer observes the target
MountPicture(c) ==
    /\ impl = "LazyPicture" /\ mountState[c] = "init"
    /\ mountState' = [mountState EXCEPT ![c] = "mounted"]
    /\ observing' = [observing EXCEPT ![c] = TRUE]
    /\ UNCHANGED <<impl, retryCount, src, status, imageUrl, loadProgress,
                   retryAttemptsRef, retryCountState, isIntersecting, inflight,
                   timers, imageCache, imageCacheWeak, netFetches, failures>>
    /\ UNCHANGED envVars
    /\ UNCHANGED auxVars
    /\ op' = Op("mount", c)
    /\ tally' = Tally(c) /\ UNCHANGED tallied

\* setIsIntersecting(true), then the effect on [isIntersecting, status, loadImage]
IntersectPicture(c) ==
    /\ impl = "LazyPicture" /\ mountState[c] = "mounted"
    /\ observing[c] /\ ~isIntersecting[c]
    /\ isIntersecting' = [isIntersecting EXCEPT ![c] = TRUE]
    /\ IF status[c] = "idle"
       THEN loadImagePicture(c, retryCountState[c], TotalPending < MaxPending)
       ELSE UNCHANGED <<status, inflight, netFetches>>
    /\ UNCHANGED <<impl, retryCount, src, mountState, imageUrl, loadProgress,
                   retryAttemptsRef, retryCountState, observing, timers,
                   imageCache, imageCacheWeak, failures>>
    /\ UNCHANGED envVars
    /\ UNCHANGED auxVars
    /\ op' = Op("visible", c)
    /\ tally' = Tally(c) /\ UNCHANGED tallied

\* setIsIntersecting(false): the effect finds isIntersecting false
LeavePicture(c) ==
    /\ impl = "LazyPicture" /\ mountState[c] = "mounted"
    /\ observing[c] /\ isIntersecting[c]
    /\ isIntersecting' = [isIntersecting EXCEPT ![c] = FALSE]
    /\ UNCHANGED <<impl, retryCount, src, mountState, status, imageUrl,
                   loadProgress, retryAttemptsRef, retryCountState, observing,
                   inflight, timers, imageCache, imageCacheWeak, netFetches,
                   failures>>
    /\ UNCHANGED envVars
    /\ UNCHANGED auxVars
    /\ op' = Op("hidden", c)
    /\ tally' = Tally(c) /\ UNCHANGED tallied

\* img.onload: the promise resolves
ImgLoadPicture(c, f) ==
    /\ impl = "LazyPicture" /\ BagIn(f, inflight[c])
    /\ inflight' = [inflight EXCEPT ![c] = @ (-) SetToBag({f})]
    /\ imageCache' = imageCache \cup {src[c]}
    /\ status' = SetState(status, c, "success")
    /\ UNCHANGED <<impl, retryCount, src, mountState, imageUrl, loadProgress,
                   retryAttemptsRef, retryCountState, isIntersecting, observing,
                   timers, imageCacheWeak, netFetches, failures>>
    /\ UNCHANGED envVars
    /\ UNCHANGED auxVars
    /\ op' = Op("load", c)
    /\ tally' = Tally(c) /\ UNCHANGED tallied

\* img.onerror: the promise rejects, the catch block runs
ImgErrorPicture(c, f) ==
    /\ impl = "LazyPicture" /\ BagIn(f, inflight[c])
    /\ inflight' = [inflight EXCEPT ![c] = @ (-) SetToBag({f})]
    /\ failures' = [failures EXCEPT ![c] = @ + 1]
    /\ status' = SetState(status, c, "error")
    /\ retryCountState' = SetState(retryCountState, c, retryCountState[c] + 1)
    /\ timers' = [timers EXCEPT ![c] = @ (+) SetToBag({
           Timer(RetryDelay * Pow2(f.cap), failures[c] + 1, f.cap)})]
    /\ UNCHANGED <<impl, retryCount, src, mountState, imageUrl, loadProgress,
                   retryAttemptsRef, isIntersecting, observing, imageCache,
                   imageCacheWeak, netFetches>>
    /\ UNCHANGED envVars
    /\ UNCHANGED auxVars
    /\ op' = Op("error", c)
    /\ tally' = Tally(c) /\ UNCHANGED tallied

\* the setTimeout callback of the catch block calls the loadImage of its own
\* closure
RetryTimerPicture(c, t) ==
    /\ impl = "LazyPicture" /\ BagIn(t, timers[c])
    /\ timers' = [timers EXCEPT ![c] = @ (-) SetToBag({t})]
    /\ loadImagePicture(c, t.cap, TRUE)
    /\ UNCHANGED <<impl, retryCount, src, mountState, imageUrl, loadProgress,
                   retryAttemptsRef, retryCountState, isIntersecting, observing,
                   imageCache, imageCacheWeak, failures>>
    /\ UNCHANGED envVars
    /\ UNCHANGED auxVars
    /\ op' = Op("timer", c)
    /\ tally' = Tally(c) /\ UNCHANGED tallied

\* unmount: the ref callback unobserves and the cleanup disconnects the
\* observer; abort() of an AbortController whose signal nothing uses
UnmountPicture(c) ==
    /\ impl = "LazyPicture" /\ mountState[c] = "mounted"
    /\ mountState' = [mountState EXCEPT ![c] = "unmounted"]
    /\ observing' = [observing EXCEPT ![c] = FALSE]
    /\ UNCHANGED <<impl, retryCount, src, status, imageUrl, loadProgress,
                   retryAttemptsRef, retryCountState, isIntersecting, inflight,
                   timers, imageCache, imageCacheWeak, netFetches, failures>>
    /\ UNCHANGED envVars
    /\ UNCHANGED auxVars
    /\ op' = Op("unmount", c)
    /\ tally' = Tally(c) /\ UNCHANGED tallied

\* a re-render of a mounted LazyPicture: the ref callback of the previous
\* render is called with null (the target is unobserved), the new one with
\* the element (it is observed again)
RefRebindPicture(c) ==
    /\ impl = "LazyPicture" /\ mountState[c] = "mounted"
    /\ staleObserving' = staleObserving
    /\ observing' = [observing EXCEPT ![c] = TRUE]
    /\ UNCHANGED <<impl, retryCount, src, mountState, status, imageUrl,
                   loadProgress, retryAttemptsRef, retryCountState,
                   isIntersecting, inflight, timers, imageCache, imageCacheWeak,
                   netFetches, failures>>
    /\ UNCHANGED <<priority, preloaded, ioSupported, inBounds, listening,
                   throttleOpen>>
    /\ UNCHANGED auxVars
    /\ op' = Op("rerender", c)
    /\ tally' = Tally(c) /\ UNCHANGED tallied

NextPicture ==
    \E c \in Controllers :
        \/ MountPicture(c)
        \/ IntersectPicture(c)
        \/ LeavePicture(c)
        \/ \E f \in BagToSet(inflight[c]) :
              \/ ImgLoadPicture(c, f)
              \/ ImgErrorPicture(c, f)
        \/ \E t \in BagToSet(timers[c]) : RetryTimerPicture(c, t)
        \/ UnmountPicture(c)

----
(***************************************************************************)
(* throttle(func, delay) of src/hooks/useIntersectionObserver.ts and       *)
(* src/hooks/useLazyLoad.ts (the two definitions are the same), for one    *)
(* throttled function with delay ThrottleDelay                             *)
(***************************************************************************)

\* a throttle whose window restarts at every call, executed or not
ThrottledCall_StampsEveryCall ==
    /\ Len(callLog) < MaxCalls
    /\ callLog' = Append(callLog, now)
    /\ lastCall' = now
    /\ IF now - lastCall >= ThrottleDelay
       THEN runLog' = Append(runLog, now)
       ELSE UNCHANGED runLog
    /\ UNCHANGED <<config, now, loadVars, envVars, todoVars, homeVars, dbVars, visVars>>

\* the function returned by throttle is called: now = Date.now()
ThrottledCall ==
    /\ Len(callLog) < MaxCalls
    /\ callLog' = Append(callLog, now)
    /\ IF now - lastCall >= ThrottleDelay
       THEN /\ runLog' = Append(runLog, now)
            /\ lastCall' = now
       ELSE UNCHANGED <<runLog, lastCall>>
    /\ UNCHANGED <<config, now, loadVars, envVars, todoVars, homeVars, dbVars, visVars>>

\* time passes between two calls
ClockTick ==
    /\ now < Epoch + MaxTicks * ClockStep
    /\ now' = now + ClockStep
    /\ UNCHANGED <<config, lastCall, callLog, runLog, loadVars, envVars, todoVars, homeVars, dbVars,
                   visVars>>

InitThrottle == Init /\ impl = "SetHook" /\ retryCount = 0
                     /\ src = [c \in Controllers |-> Url]
NextThrottle == ThrottledCall \/ ClockTick
SpecThrottle == InitThrottle /\ [][NextThrottle]_vars

----
(***************************************************************************)
(* GET and POST of /api/profile and table profile of lib/db.ts             *)
(* A request body is the JSON of a Profile: username, email and phone are  *)
(* strings and highscore is an integer, which the TEXT and INTEGER columns *)
(* store as they are. better-sqlite3 is synchronous: after its             *)
(* `await request.json()` a POST runs to its end without interleaving.     *)
(***************************************************************************)
Usernames == {"ann", "bob"}
Emails == {"a@x"}
Phones == {"1", "2"}
Bodies == [username : Usernames, email : Emails, phone : Phones,
           highscore : 0..MaxScore]

\* { username: '', email: '', phone: '', highscore: 0 }
ZeroedProfile == [username |-> "", email |-> "", phone |-> "", highscore |-> 0]

\* SELECT * FROM profile WHERE id = 1
SelectId1 == {r \in profileTable : r.id = 1}

\* a row as INSERT stores it: id from AUTOINCREMENT
Row(i, b) == [id |-> i, username |-> b.username, email |-> b.email,
              phone |-> b.phone, highscore |-> b.highscore]

\* a POST that inserts without looking for the row
PostProfile_AlwaysInserts(b) ==
    /\ Cardinality(profileTable) < MaxRows
    /\ profileTable' = profileTable \cup {Row(sqliteSequence + 1, b)}
    /\ sqliteSequence' = sqliteSequence + 1
    /\ lastPost' = <<b>>
    /\ UNCHANGED <<response, throttleVars, loadVars, envVars, todoVars, homeVars, visVars>>

\* the server's handling of POST /api/profile with body b
ServePost(b) ==
    /\ Cardinality(profileTable) < MaxRows
    /\ IF SelectId1 # {}
       THEN /\ profileTable' = {IF r.id = 1 THEN Row(r.id, b) ELSE r :
                                   r \in profileTable}
            /\ UNCHANGED sqliteSequence
       ELSE /\ profileTable' = profileTable \cup {Row(sqliteSequence + 1, b)}
            /\ sqliteSequence' = sqliteSequence + 1
    /\ lastPost' = <<b>>

\* POST /api/profile with body b
PostProfile(b) ==
    /\ ServePost(b)
    /\ UNCHANGED <<response, throttleVars, loadVars, envVars, todoVars, homeVars, visVars>>

\* GET /api/profile: the row, or the zeroed profile when there is none
GetProfile ==
    /\ response' = <<IF SelectId1 # {} THEN CHOOSE r \in SelectId1 : TRUE
                     ELSE ZeroedProfile>>
    /\ UNCHANGED <<profileTable, sqliteSequence, lastPost, throttleVars,
                   loadVars, envVars, todoVars, homeVars, visVars>>

InitProfile == Init /\ impl = "SetHook" /\ retryCount = 0
                    /\ src = [c \in Controllers |-> Url]
NextProfile == GetProfile \/ \E b \in Bodies : PostProfile(b)
SpecProfile == InitProfile /\ [][NextProfile]_vars

----
(***************************************************************************)
(* The visibility hooks: useIntersectionObserver of                        *)
(* src/hooks/useIntersectionObserver.ts and the visibility-only            *)
(* useLazyLoad of src/unnamed/part_001 ("useLazyLoadVisible"), for one     *)
(* component in a browser with IntersectionObserver. The ref function is   *)
(* created anew by every render, so React calls the previous one with null *)
(* and the new one with the element at every commit.                       *)
(* disconnect() makes an observer observe nothing; it can observe again.   *)
(***************************************************************************)
VisHooks == {"useIntersectionObserver", "useLazyLoadVisible"}

\* the observer in observerRef.current may observe element el: always in
\* useIntersectionObserver, only while isVisible is false in part_001
MayObserve == visHook = "useIntersectionObserver" \/ ~visibleFlag

\* a step of the visibility hook leaves the rest of the page alone
othersUnchanged == UNCHANGED <<throttleVars, dbVars, loadVars, envVars, todoVars, homeVars>>

\* the commit that mounts the component: ref(el) finds no observer yet, then
\* the effect creates the observer and observes targetRef.current
MountVisibility(el) ==
    /\ visMount = "init" /\ el \in Elements
    /\ visMount' = "mounted"
    /\ targetRef' = el
    /\ observedTargets' = {el}
    /\ UNCHANGED <<visHook, once, visibleFlag, firedOnce>>
    /\ visOp' = "mount"
    /\ othersUnchanged

\* the observer's callback for an entry of observed element el.
\* useIntersectionObserver: setIsIntersecting(entry.isIntersecting), and
\* disconnect() when once and intersecting. part_001: an intersecting entry
\* sets isVisible and, when once, disconnects; the change of isVisible re-runs
\* the effect, whose cleanup disconnects and which returns at once when once,
\* and creates a new observer of targetRef.current otherwise.
ObserverCallback(el, intersecting) ==
    /\ visMount = "mounted" /\ el \in observedTargets
    /\ visibleFlag' = IF visHook = "useIntersectionObserver"
                    THEN intersecting ELSE (visibleFlag \/ intersecting)
    /\ observedTargets' =
          IF visHook = "useIntersectionObserver"
          THEN IF once /\ intersecting THEN {} ELSE observedTargets
          ELSE IF intersecting /\ ~visibleFlag
               THEN IF once \/ targetRef = NoElement THEN {} ELSE {targetRef}
               ELSE IF intersecting /\ once THEN {} ELSE observedTargets
    /\ firedOnce' = (firedOnce \/ intersecting)
    /\ UNCHANGED <<visHook, once, visMount, targetRef>>
    /\ visOp' = "callback"
    /\ othersUnchanged

\* a commit of the mounted component: the previous ref function is called
\* with null, the new one with the element now rendered (another one or the
\* same)
RefRebind(el) ==
    /\ visMount = "mounted" /\ el \in Elements
    /\ targetRef' = el
    /\ observedTargets' =
          LET rest == observedTargets \ {targetRef} IN
          IF MayObserve THEN rest \cup {el} ELSE rest
    /\ UNCHANGED <<visHook, once, visMount, visibleFlag, firedOnce>>
    /\ visOp' = "ref"
    /\ othersUnchanged

\* unmount: ref(null), then the cleanup disconnects the observer
UnmountVisibility ==
    /\ visMount = "mounted"
    /\ visMount' = "unmounted"
    /\ targetRef' = NoElement
    /\ observedTargets' = {}
    /\ UNCHANGED <<visHook, once, visibleFlag, firedOnce>>
    /\ visOp' = "unmount"
    /\ othersUnchanged

\* a component that calls either visibility hook, with once given or not
InitVisible ==
    /\ InitPage /\ InitSrc /\ impl = "SetHook" /\ tallied = FALSE
    /\ visHook \in VisHooks /\ once \in BOOLEAN
    /\ retryCount = 0 /\ config = [retryCount |-> {retryCount}]
    /\ priority = [c \in Controllers |-> FALSE]
    /\ ioSupported = TRUE
    /\ inBounds = [c \in Controllers |-> FALSE]
NextVisibility ==
    \/ \E el \in Elements : MountVisibility(el) \/ RefRebind(el)
    \/ \E el \in observedTargets : \E b \in BOOLEAN : ObserverCallback(el, b)
    \/ UnmountVisibility
SpecVisibility == InitVisible /\ [][NextVisibility]_vars

----
(***************************************************************************)
(* TodoList of src/unnamed/part_002: the items, the undo history kept by   *)
(* handleAction and handleUndoRedo, the filter and the search term under   *)
(* which the rows are displayed, and drag and drop of the displayed rows.  *)
(* Every handler is one setState updater or calls one: the component has   *)
(* no asynchronous step but FileReader's onload, whose result is the       *)
(* argument of ImportJson. A drag is one gesture: between dragstart and    *)
(* drop no other handler of the component runs.                            *)
(***************************************************************************)

\* String.prototype.trim on the texts typed here
Trim(t) == CASE t = "b " -> "b"
             [] t = " "  -> ""
             [] OTHER    -> t

\* String.prototype.toLowerCase on the texts typed here
ToLowerCase(t) == CASE t = "A" -> "a"
                    [] t = "B" -> "b"
                    [] OTHER   -> t

\* text.includes(term) for the terms and texts typed here: the empty term
\* is in every text, "a" is in text "a" only
Includes(text, term) == term = "" \/ (term = "a" /\ text = "a")

\* what is typed into the add input and into the input of a row being edited
InputTexts == {"a", "b ", " "}
EditedTexts == {"b", ""}
SearchTerms == {"", "A"}
Filters == {"all", "active", "completed"}

\* what an earlier session left in localStorage under 'todoList': nothing,
\* or three todos of which the first is completed
SavedTodos ==
    <<[id |-> "1", text |-> "a", completed |-> TRUE,  selected |-> FALSE],
      [id |-> "2", text |-> "a", completed |-> FALSE, selected |-> FALSE],
      [id |-> "3", text |-> "b", completed |-> FALSE, selected |-> FALSE]>>
SavedLists == {<< >>, SavedTodos}

\* the arrays a JSON file to import holds (id, text, completed of each
\* entry): handleImportJson adds selected: false to each entry
ImportFiles ==
    {<< >>,
     <<[id |-> "9", text |-> "b", completed |-> TRUE]>>}

\* array.indexOf-style helpers on 0-based indices
ItemAt(s, i) == IF i >= 0 /\ i < Len(s) THEN s[i + 1] ELSE Undefined
RemoveAt(s, i) ==
    IF i >= 0 /\ i < Len(s)
    THEN SubSeq(s, 1, i) \o SubSeq(s, i + 2, Len(s))
    ELSE s
InsertAt(s, i, x) ==
    LET k == IF i > Len(s) THEN Len(s) ELSE i
    IN SubSeq(s, 1, k) \o <<x>> \o SubSeq(s, k + 1, Len(s))

\* { ...item, ...payload } for a payload that carries id and one field
Merge(item, payload) ==
    CASE payload.field = "text"      -> [item EXCEPT !.text = payload.value]
      [] payload.field = "completed" -> [item EXCEPT !.completed = payload.value]
      [] payload.field = "selected"  -> [item EXCEPT !.selected = payload.value]

\* the switch of handleAction
NewItems(items, action) ==
    CASE action.type = "ADD_TODO" -> Append(items, action.payload)
      [] action.type = "UPDATE_TODO" ->
            [i \in DOMAIN items |->
                IF items[i].id = action.payload.id
                THEN Merge(items[i], action.payload) ELSE items[i]]
      [] action.type = "DELETE_TODO" ->
            LET Keep(item) == item.id # action.payload
            IN SelectSeq(items, Keep)
      [] action.type \in {"DELETE_SELECTED", "CLEAR_COMPLETED"} ->
            LET Keep(item) == item.id \notin action.payload
            IN SelectSeq(items, Keep)
      [] action.type = "MOVE_TODO" ->
            InsertAt(RemoveAt(items, action.payload.fromIndex),
                     action.payload.toIndex,
                     ItemAt(items, action.payload.fromIndex))
      [] action.type = "TOGGLE_SELECT_ALL" ->
            [i \in DOMAIN items |-> [items[i] EXCEPT !.selected = action.payload]]
      [] action.type = "LOAD_TODOS" -> action.payload

\* a handleAction that keeps every entry of the history
handleAction_KeepsAll(prevState, action) ==
    LET newItems == NewItems(prevState.items, action)
        sliced   == SubSeq(prevState.history, 1, prevState.historyIndex + 1)
        newHistory == Append(sliced, [items |-> prevState.items])
    IN [prevState EXCEPT !.items = newItems,
                         !.history = newHistory,
                         !.historyIndex = Len(newHistory) - 1]

\* the updater of handleAction
handleAction(prevState, action) ==
    LET newItems == NewItems(prevState.items, action)
        sliced   == SubSeq(prevState.history, 1, prevState.historyIndex + 1)
        pushed   == Append(sliced, [items |-> prevState.items])
        newHistory == IF Len(pushed) > HistoryLimit THEN Tail(pushed)
                      ELSE pushed
    IN [prevState EXCEPT !.items = newItems,
                         !.history = newHistory,
                         !.historyIndex = Len(newHistory) - 1]

\* the updater of handleUndoRedo
handleUndoRedo(prevState, isRedo) ==
    LET newIndex == IF isRedo THEN prevState.historyIndex + 1
                    ELSE prevState.historyIndex - 1
    IN IF newIndex < 0 \/ newIndex >= Len(prevState.history)
       THEN prevState
       ELSE [prevState EXCEPT !.items = prevState.history[newIndex + 1].items,
                              !.historyIndex = newIndex]

\* the rows displayed: state.items.filter(matchesFilter && matchesSearch)
filteredTodos ==
    LET Matches(item) ==
            /\ \/ filter = "all"
               \/ filter = "active" /\ ~item.completed
               \/ filter = "completed" /\ item.completed
            /\ \/ searchTerm = ""
               \/ Includes(ToLowerCase(item.text), ToLowerCase(searchTerm))
    IN SelectSeq(state.items, Matches)

DisplayedIds == {filteredTodos[i].id : i \in DOMAIN filteredTodos}
Find(id) == CHOOSE item \in {state.items[i] : i \in DOMAIN state.items} :
                item.id = id
SelectedIds == {state.items[i].id :
                   i \in {j \in DOMAIN state.items : state.items[j].selected}}
CompletedIds == {state.items[i].id :
                   i \in {j \in DOMAIN state.items : state.items[j].completed}}

\* parseInt of a string that index.toString() produced, NaN otherwise
NaN == -1
ParseInt(str) ==
    IF \E n \in 0..HistoryLimit : ToString(n) = str
    THEN CHOOSE n \in 0..HistoryLimit : ToString(n) = str
    ELSE NaN

\* what the todo handlers leave alone
todoOthers == UNCHANGED <<config, lastCall, callLog, runLog, dbVars, visVars,
                          loadVars, envVars, homeVars>>

\* the record kept in todoOp: the handler, the items before it and, for a
\* drop, the displayed todos dragged and dropped onto
TodoOp(n, a, b) == [name |-> n, before |-> state.items, a |-> a, b |-> b]

\* a handler that calls handleAction(action) and nothing else
Dispatch(n, action) ==
    /\ actions < MaxActions
    /\ state' = handleAction(state, action)
    /\ actions' = actions + 1
    /\ todoOp' = TodoOp(n, Undefined, Undefined)
    /\ UNCHANGED <<filter, searchTerm>>

\* handleAddTodo(text): the id is Date.now().toString(); at least 1 ms
\* passes between two user events
AddTodo(text) ==
    /\ Trim(text) # ""
    /\ Dispatch("add", [type |-> "ADD_TODO",
                        payload |-> [id |-> ToString(now), text |-> Trim(text),
                                     completed |-> FALSE, selected |-> FALSE]])
    /\ now' = now + 1
    /\ todoOthers

\* handleToggleComplete(id) of a displayed row
ToggleComplete(id) ==
    /\ id \in DisplayedIds
    /\ Dispatch("update", [type |-> "UPDATE_TODO",
                           payload |-> [id |-> id, field |-> "completed",
                                        value |-> ~Find(id).completed]])
    /\ UNCHANGED now /\ todoOthers

\* handleToggleSelect(id) of a displayed row
ToggleSelect(id) ==
    /\ id \in DisplayedIds
    /\ Dispatch("update", [type |-> "UPDATE_TODO",
                           payload |-> [id |-> id, field |-> "selected",
                                        value |-> ~Find(id).selected]])
    /\ UNCHANGED now /\ todoOthers

\* handleToggleSelectAll: shouldSelectAll = selectedCount !== totalCount
ToggleSelectAll ==
    /\ Dispatch("select-all",
                [type |-> "TOGGLE_SELECT_ALL",
                 payload |-> (Cardinality(SelectedIds) # Len(state.items))])
    /\ UNCHANGED now /\ todoOthers

\* handleDeleteTodo(id) of a displayed row
DeleteTodo(id) ==
    /\ id \in DisplayedIds
    /\ Dispatch("delete", [type |-> "DELETE_TODO", payload |-> id])
    /\ UNCHANGED now /\ todoOthers

\* handleDeleteSelected and the Delete / Backspace key
DeleteSelected ==
    /\ SelectedIds # {}
    /\ Dispatch("delete", [type |-> "DELETE_SELECTED", payload |-> SelectedIds])
    /\ UNCHANGED now /\ todoOthers

\* handleClearCompleted
ClearCompleted ==
    /\ CompletedIds # {}
    /\ Dispatch("clear-completed",
                [type |-> "CLEAR_COMPLETED", payload |-> CompletedIds])
    /\ UNCHANGED now /\ todoOthers

\* handleStartEditing(id) of a displayed row not being edited
StartEditing(id) ==
    /\ id \in DisplayedIds /\ state.editingId # id
    /\ state' = [state EXCEPT !.editingId = id]
    /\ todoOp' = TodoOp("view", Undefined, Undefined)
    /\ UNCHANGED <<filter, searchTerm, actions, now>> /\ todoOthers

\* handleCancelEditing of the row being edited
CancelEditing ==
    /\ state.editingId \in DisplayedIds
    /\ state' = [state EXCEPT !.editingId = "null"]
    /\ todoOp' = TodoOp("view", Undefined, Undefined)
    /\ UNCHANGED <<filter, searchTerm, actions, now>> /\ todoOthers

\* onChange of the input of the row being edited
ChangeEditing(text) ==
    /\ state.editingId \in DisplayedIds
    /\ Dispatch("update", [type |-> "UPDATE_TODO",
                           payload |-> [id |-> state.editingId,
                                        field |-> "text", value |-> text]])
    /\ UNCHANGED now /\ todoOthers

\* handleSaveEditing(todo.id, value) of the row being edited: the value of
\* the controlled input is todo.text
SaveEditing ==
    /\ state.editingId \in DisplayedIds
    /\ actions < MaxActions
    /\ LET id   == state.editingId
           text == Find(id).text
           action == IF Trim(text) # ""
                     THEN [type |-> "UPDATE_TODO",
                           payload |-> [id |-> id, field |-> "text",
                                        value |-> Trim(text)]]
                     ELSE [type |-> "DELETE_TODO", payload |-> id]
       IN /\ state' = [handleAction(state, action) EXCEPT !.editingId = "null"]
          /\ todoOp' = TodoOp(IF Trim(text) # "" THEN "update" ELSE "delete",
                              Undefined, Undefined)
    /\ actions' = actions + 1
    /\ UNCHANGED <<filter, searchTerm, now>> /\ todoOthers

\* a drag of displayed row fromIndex dropped on displayed row toIndex:
\* handleDragStart stores index.toString(), handleDrop parses it
DragDrop(fromIndex, toIndex) ==
    /\ fromIndex \in 0..(Len(filteredTodos) - 1)
    /\ toIndex \in 0..(Len(filteredTodos) - 1)
    /\ actions < MaxActions
    /\ LET dataTransfer == ToString(fromIndex)
           parsed == ParseInt(dataTransfer)
       IN /\ parsed # toIndex /\ parsed # NaN
          /\ state' = handleAction(state,
                          [type |-> "MOVE_TODO",
                           payload |-> [fromIndex |-> parsed,
                                        toIndex |-> toIndex]])
    /\ actions' = actions + 1
    /\ todoOp' = TodoOp("move", filteredTodos[fromIndex + 1],
                        filteredTodos[toIndex + 1])
    /\ UNCHANGED <<filter, searchTerm, now>> /\ todoOthers

\* handleImportJson with a file that holds a valid array
ImportJson(file) ==
    /\ Dispatch("load",
                [type |-> "LOAD_TODOS",
                 payload |-> [i \in DOMAIN file |->
                                 [id |-> file[i].id, text |-> file[i].text,
                                  completed |-> file[i].completed,
                                  selected |-> FALSE]]])
    /\ UNCHANGED now /\ todoOthers

\* Ctrl/Cmd+Z
Undo ==
    /\ state' = handleUndoRedo(state, FALSE)
    /\ todoOp' = TodoOp("undo", Undefined, Undefined)
    /\ UNCHANGED <<filter, searchTerm, actions, now>> /\ todoOthers

\* Ctrl/Cmd+Shift+Z
Redo ==
    /\ state' = handleUndoRedo(state, TRUE)
    /\ todoOp' = TodoOp("redo", Undefined, Undefined)
    /\ UNCHANGED <<filter, searchTerm, actions, now>> /\ todoOthers

\* setFilter(f) of the three filter buttons
SetFilter(f) ==
    /\ filter # f
    /\ filter' = f
    /\ todoOp' = TodoOp("view", Undefined, Undefined)
    /\ UNCHANGED <<state, searchTerm, actions, now>> /\ todoOthers

\* setSearchTerm(e.target.value) of the search input
SetSearchTerm(term) ==
    /\ searchTerm # term
    /\ searchTerm' = term
    /\ todoOp' = TodoOp("view", Undefined, Undefined)
    /\ UNCHANGED <<state, filter, actions, now>> /\ todoOthers

\* the state of a session that added one todo and then clicked its two
\* checkboxes in turn, n clicks in all: completion first, selection second
FirstTodo == [id |-> "1", text |-> "a", completed |-> FALSE, selected |-> FALSE]
RECURSIVE AfterUpdates(_)
AfterUpdates(n) ==
    IF n = 0
    THEN handleAction(FreshState, [type |-> "ADD_TODO", payload |-> FirstTodo])
    ELSE LET prev  == AfterUpdates(n - 1)
             field == IF n % 2 = 1 THEN "completed" ELSE "selected"
             value == IF n % 2 = 1 THEN ~prev.items[1].completed
                      ELSE ~prev.items[1].selected
         IN handleAction(prev,
               [type |-> "UPDATE_TODO",
                payload |-> [id |-> FirstTodo.id, field |-> field,
                             value |-> value]])

\* TodoList after its mount effect, or well into a session whose history
\* holds as many entries as it can
InitTodoList ==
    /\ InitLazy /\ InitHomeBuilt
    /\ impl = "SetHook" /\ retryCount = 0 /\ config = [retryCount |-> {0}]
    /\ src = [c \in Controllers |-> Url]
    /\ tallied = FALSE /\ visHook = "useIntersectionObserver" /\ once = FALSE
    /\ priority = [c \in Controllers |-> FALSE]
    /\ ioSupported = TRUE
    /\ inBounds = [c \in Controllers |-> FALSE]
    /\ state \in {Loaded(saved) : saved \in SavedLists}
                 \cup {AfterUpdates(HistoryLimit - 1)}
    /\ filter = "all"
    /\ searchTerm = ""
    /\ actions = 0
    /\ todoOp = [name |-> "init", before |-> << >>, a |-> Undefined,
                 b |-> Undefined]

NextTodo ==
    \/ \E text \in InputTexts : AddTodo(text)
    \/ \E id \in DisplayedIds :
          \/ ToggleComplete(id)
          \/ ToggleSelect(id)
          \/ DeleteTodo(id)
          \/ StartEditing(id)
    \/ ToggleSelectAll
    \/ DeleteSelected
    \/ ClearCompleted
    \/ CancelEditing
    \/ \E text \in EditedTexts : ChangeEditing(text)
    \/ SaveEditing
    \/ \E fromIndex, toIndex \in 0..(Len(filteredTodos) - 1) :
          DragDrop(fromIndex, toIndex)
    \/ \E file \in ImportFiles : ImportJson(file)
    \/ Undo
    \/ Redo
    \/ \E f \in Filters : SetFilter(f)
    \/ \E term \in SearchTerms : SetSearchTerm(term)

SpecTodo == InitTodoList /\ [][NextTodo]_vars

----
(***************************************************************************)
(* HomePage of src/app/page.tsx with its children TypingGame               *)
(* (src/components/Navbar.tsx:515-642) and ProfileEdit                     *)
(* (src/components/Loading.tsx:12-91), and the server behind /api/profile. *)
(*                                                                         *)
(* TypingGame reads startNewGame, endGame and generateTargetText in        *)
(* dependency arrays above the const declarations that bind them. What     *)
(* that does depends on the build (binding):                               *)
(*   "const" the declarations stay block-scoped: the first render throws   *)
(*           a ReferenceError, no error boundary catches it and React      *)
(*           unmounts the page;                                            *)
(*   "var"   the declarations are compiled to var: the names are undefined *)
(*           where the arrays are built, so the start effect has the       *)
(*           constant dependency [undefined] and runs at mount only, the   *)
(*           game-over effect depends on [timeLeft, score, profile], and   *)
(*           startNewGame is created anew only when onRefresh changes,     *)
(*           which is at every render of HomePage.                         *)
(* A development build under StrictMode (strictMode) runs the effects of a *)
(* component that mounts, and runs them again.                             *)
(*                                                                         *)
(* One step completes a request: the server handles it and the client's    *)
(* continuation after the await runs. Requests in flight complete in any   *)
(* order. An interval of an instance that has been unmounted stays         *)
(* registered with the window (leaked): nothing clears it, and React drops *)
(* the updates it sends. The word to type and the text typed are left out: *)
(* CorrectWord is the input event that completes the word.                 *)
(***************************************************************************)

Bindings == {"const", "var"}

\* endGame of a render whose score and profile are cl.score and cl.profile:
\* the POSTs it sends
EndGamePosts(cl) ==
    IF cl.score > cl.profile.highscore
    THEN SetToBag({[kind |-> "POST", by |-> "endGame",
                    body |-> [cl.profile EXCEPT !.highscore = cl.score]]})
    ELSE EmptyBag

\* the interval startNewGame registers: its endGame is the one of the render
\* that created startNewGame
Interval(cl) == [closure |-> cl]

\* TypingGame as an instance that has just mounted with profile p leaves it:
\* the start effect has called startNewGame once, or twice under StrictMode
NewGame(p) ==
    LET cl   == [score |-> 0, profile |-> p]
        runs == IF strictMode THEN 2 ELSE 1
    IN [mount |-> "mounted", timeLeft |-> StartTime, score |-> 0,
        gameOver |-> FALSE, intervals |-> [k \in 1..runs |-> Interval(cl)],
        startNewGame |-> cl]

\* the commit that follows a change of HomePage's state to h; replaced
\* says that setProfile was called (with a new object). The result is the
\* game, the requests sent and the intervals leaked.
Commit(h, replaced) ==
    IF h.isLoading
    THEN \* <Loading /> replaces the page
         [game |-> IF game.mount = "mounted"
                   THEN [game EXCEPT !.mount = "unmounted", !.intervals = << >>]
                   ELSE game,
          out |-> EmptyBag,
          leaked |-> IF game.mount = "mounted" THEN Len(game.intervals) ELSE 0]
    ELSE IF game.mount # "mounted"
    THEN \* TypingGame mounts
         IF binding = "const"
         THEN [game |-> [game EXCEPT !.mount = "crashed"], out |-> EmptyBag,
               leaked |-> 0]
         ELSE [game |-> NewGame(h.profile),
               out |-> Copies(GetRequest, IF strictMode THEN 2 ELSE 1),
               leaked |-> 0]
    ELSE \* TypingGame renders again with a new onRefresh: startNewGame is
         \* created anew; the game-over effect runs if profile is new
         LET ends == replaced /\ game.timeLeft = 0
         IN [game |-> [game EXCEPT
                         !.startNewGame = [score |-> game.score,
                                           profile |-> h.profile],
                         !.gameOver = @ \/ ends],
             out |-> IF ends
                     THEN EndGamePosts([score |-> game.score,
                                        profile |-> h.profile])
                     ELSE EmptyBag,
             leaked |-> 0]

\* ProfileEdit is on the screen
FormShown(h) == ~h.isLoading /\ h.isEditingProfile

\* HomePage's state becomes h, requests gone complete and requests more
\* are sent by the handler itself
Render(h, replaced, gone, more) ==
    LET c == Commit(h, replaced)
    IN /\ BagCardinality(more (+) c.out) + sent <= MaxRequests
       /\ home' = [h EXCEPT !.formData =
                      IF FormShown(h) /\ ~FormShown(home) THEN h.profile
                      ELSE @]
       /\ game' = c.game
       /\ leaked' = leaked + c.leaked
       /\ requests' = ((requests (-) gone) (+) more) (+) c.out
       /\ sent' = sent + BagCardinality(more (+) c.out)

\* what the handlers of the page leave alone
homeOthers == UNCHANGED <<throttleVars, visVars, loadVars, envVars, todoVars,
                          response, binding, strictMode>>

\* the row of the profile as the client keeps it
ClientProfile(r) == [username |-> r.username, email |-> r.email,
                     phone |-> r.phone, highscore |-> r.highscore]

\* GET /api/profile completes: setProfile(response.data), setIsLoading(false)
GetCompletes ==
    /\ game.mount # "crashed"
    /\ BagIn(GetRequest, requests)
    /\ LET data == IF SelectId1 # {}
                   THEN ClientProfile(CHOOSE r \in SelectId1 : TRUE)
                   ELSE ClientProfile(ZeroedProfile)
       IN Render([home EXCEPT !.profile = data, !.isLoading = FALSE],
                 TRUE, SetToBag({GetRequest}), EmptyBag)
    /\ UNCHANGED <<profileTable, sqliteSequence, lastPost>>
    /\ homeOthers

\* a POST completes: after its await, handleSave calls setProfile,
\* setIsEditingProfile(false) and setIsLoading(false); endGame does nothing
PostCompletes(r) ==
    /\ game.mount # "crashed"
    /\ BagIn(r, requests) /\ r.kind = "POST"
    /\ ServePost(r.body)
    /\ IF r.by = "handleSave"
       THEN Render([home EXCEPT !.profile = r.body,
                                !.isEditingProfile = FALSE,
                                !.isLoading = FALSE],
                   TRUE, SetToBag({r}), EmptyBag)
       ELSE /\ requests' = requests (-) SetToBag({r})
            /\ UNCHANGED <<home, game, leaked, sent>>
    /\ homeOthers

\* handleEdit: the Edit button of ProfileDisplay
handleEdit ==
    /\ game.mount # "crashed"
    /\ ~home.isLoading /\ ~home.isEditingProfile
    /\ Render([home EXCEPT !.isEditingProfile = TRUE], FALSE, EmptyBag,
              EmptyBag)
    /\ UNCHANGED <<profileTable, sqliteSequence, lastPost>>
    /\ homeOthers

\* what the user types into the inputs of ProfileEdit
FormInput == [username |-> "ann", email |-> "a@x", phone |-> "1"]

\* handleChange of ProfileEdit: only ProfileEdit renders again
handleChange(name, value) ==
    /\ game.mount # "crashed"
    /\ FormShown(home)
    /\ home.formData[name] # value
    /\ home' = [home EXCEPT !.formData[name] = value]
    /\ UNCHANGED <<game, leaked, requests, sent, profileTable, sqliteSequence,
                   lastPost>>
    /\ homeOthers

\* handleSubmit of ProfileEdit, once the required inputs are filled:
\* handleSave(formData) calls setIsLoading(true) and sends the POST
handleSubmit ==
    /\ game.mount # "crashed"
    /\ FormShown(home)
    /\ home.formData.username # "" /\ home.formData.email # ""
    /\ home.formData.phone # ""
    /\ Render([home EXCEPT !.isLoading = TRUE], FALSE, EmptyBag,
              SetToBag({[kind |-> "POST", by |-> "handleSave",
                         body |-> home.formData]}))
    /\ UNCHANGED <<profileTable, sqliteSequence, lastPost>>
    /\ homeOthers

\* the input event that completes the word: setScore(prev => prev + 1)
CorrectWord ==
    /\ game.mount = "mounted" /\ ~home.isLoading /\ ~game.gameOver
    /\ game.score < MaxScore
    /\ game' = [game EXCEPT !.score = @ + 1]
    /\ UNCHANGED <<home, leaked, requests, sent, profileTable, sqliteSequence,
                   lastPost>>
    /\ homeOthers

\* the remaining intervals after clearInterval of the k-th
Cleared(ivs, k) == SubSeq(ivs, 1, k - 1) \o SubSeq(ivs, k + 1, Len(ivs))

\* the k-th interval of the mounted game fires, a second after it last
\* did: the updater of setTimeLeft, then the game-over effect of the render
\* that follows
GameTick(k) ==
    /\ game.mount = "mounted"
    /\ k \in DOMAIN game.intervals
    /\ game.timeLeft >= 0
    /\ LET last == game.timeLeft = 1
           posts == IF last
                    THEN EndGamePosts(game.intervals[k].closure)
                         (+) EndGamePosts([score |-> game.score,
                                           profile |-> home.profile])
                    ELSE EmptyBag
       IN /\ BagCardinality(posts) + sent <= MaxRequests
          /\ game' = [game EXCEPT
                        !.timeLeft = @ - 1,
                        !.gameOver = @ \/ last,
                        !.intervals = IF last THEN Cleared(@, k) ELSE @]
          /\ requests' = requests (+) posts
          /\ sent' = sent + BagCardinality(posts)
    /\ UNCHANGED <<home, leaked, profileTable, sqliteSequence, lastPost>>
    /\ homeOthers

\* Play Again: startNewGame of the render HomePage last caused
PlayAgain ==
    /\ game.mount = "mounted" /\ ~home.isLoading /\ game.gameOver
    /\ sent < MaxRequests
    /\ game' = [game EXCEPT
                  !.score = 0, !.timeLeft = StartTime, !.gameOver = FALSE,
                  !.intervals = Append(@, Interval(game.startNewGame))]
    /\ requests' = requests (+) SetToBag({GetRequest})
    /\ sent' = sent + 1
    /\ UNCHANGED <<home, leaked, profileTable, sqliteSequence, lastPost>>
    /\ homeOthers

\* the page of a first-time user after HomePage has mounted, for every build
InitHomePage ==
    /\ InitLazy /\ InitTodoFresh
    /\ impl = "SetHook" /\ retryCount = 0 /\ config = [retryCount |-> {0}]
    /\ src = [c \in Controllers |-> Url]
    /\ tallied = FALSE /\ visHook = "useIntersectionObserver" /\ once = FALSE
    /\ priority = [c \in Controllers |-> FALSE]
    /\ ioSupported = TRUE
    /\ inBounds = [c \in Controllers |-> FALSE]
    /\ binding \in Bindings
    /\ strictMode \in BOOLEAN
    /\ InitHomeState

NextHome ==
    \/ GetCompletes
    \/ \E r \in BagToSet(requests) : PostCompletes(r)
    \/ handleEdit
    \/ \E name \in DOMAIN FormInput : handleChange(name, FormInput[name])
    \/ handleSubmit
    \/ CorrectWord
    \/ \E k \in DOMAIN game.intervals : GameTick(k)
    \/ PlayAgain

SpecHome == InitHomePage /\ [][NextHome]_vars

----
Next == NextSet \/ NextWeak \/ NextPicture


Spec == Init /\ [][Next]_vars

\* a page of one implementation only
InitSet == Init /\ impl = "SetHook"
InitWeak == Init /\ impl = "WeakMapHook"
InitPicture == Init /\ impl = "LazyPicture"
SpecSet == InitSet /\ [][NextSet]_vars
SpecWeak == InitWeak /\ [][NextWeak]_vars
SpecPicture == InitPicture /\ [][NextPicture]_vars

\* a page of LazyPicture components on which every fetch eventually completes
\* and every pending timer eventually fires
FairPicture ==
    \A c \in Controllers :
        /\ WF_vars(\E f \in BagToSet(inflight[c]) :
                      ImgLoadPicture(c, f) \/ ImgErrorPicture(c, f))
        /\ WF_vars(\E t \in BagToSet(timers[c]) : RetryTimerPicture(c, t))
SpecPictureFair == InitPicture /\ [][NextPicture]_vars /\ FairPicture

\* a page of either implementation that keeps a retry attempt counter of its
\* own kind: the ref of the Set-keyed hook, the state of LazyPicture
InitSetPicture == Init /\ impl \in {"SetHook", "LazyPicture"}
NextSetPicture == NextSet \/ NextPicture
SpecSetPicture == InitSetPicture /\ [][NextSetPicture]_vars

\* pages whose components are re-rendered with new observer options while
\* mounted; the hooks with retryCount 0, which is what LazyImage passes when
\* its retryCount prop is not given
InitRebind == Init /\ (impl \in Hooks => retryCount = 0)
NextRebind ==
    \E c \in Controllers :
        \/ MountSet(c) \/ IntersectSet(c) \/ LeaveHook(c)
        \/ RetryLoadSet(c) \/ UnmountSet(c) \/ OptionsChangeSet(c)
        \/ \E v \in BOOLEAN : MountWeak(c, v) \/ OptionsChangeWeak(c, v)
        \/ IntersectWeak(c) \/ RetryLoadWeak(c) \/ UnmountWeak(c)
        \/ \E f \in BagToSet(inflight[c]) :
              \/ ImgLoadSet(c, f) \/ ImgErrorSet(c, f)
              \/ ImgLoadWeak(c, f) \/ ImgErrorWeak(c, f)
              \/ ImgLoadPicture(c, f) \/ ImgErrorPicture(c, f)
              \/ \E p \in ProgressValues :
                    ImgProgressSet(c, f, p) \/ ImgProgressWeak(c, f, p)
        \/ MountPicture(c) \/ IntersectPicture(c) \/ LeavePicture(c)
        \/ \E t \in BagToSet(timers[c]) : RetryTimerPicture(c, t)
        \/ UnmountPicture(c) \/ RefRebindPicture(c)
SpecRebind == InitRebind /\ [][NextRebind]_vars

\* pages of two hook controllers, the first with an identifier and the second
\* without, whose regions are moved by scrolling, in a browser with or
\* without IntersectionObserver; retryCount 0 as in InitRebind.
\* An observer delivers the reports it owes, and time passes; nothing makes
\* the user scroll.
InitBind ==
    /\ InitLoad /\ impl \in Hooks /\ retryCount = 0
    /\ src = [c \in Controllers |-> IF c = 1 THEN Url ELSE ""]
    /\ priority = [c \in Controllers |-> FALSE]
    /\ ioSupported \in BOOLEAN
    /\ inBounds \in [Controllers -> BOOLEAN]
NextBind ==
    \E c \in Controllers :
        \/ MountSet(c) \/ ReportSet(c) \/ ReportLeaveHook(c)
        \/ RetryLoadSet(c) \/ UnmountSet(c)
        \/ MountWeak(c, inBounds[c]) \/ ReportWeak(c)
        \/ RetryLoadWeak(c) \/ UnmountWeak(c)
        \/ \E b \in BOOLEAN : ScrollSet(c, b) \/ ScrollWeak(c, b)
        \/ ThrottleElapse(c)
        \/ \E f \in BagToSet(inflight[c]) :
              \/ ImgLoadSet(c, f) \/ ImgErrorSet(c, f)
              \/ ImgLoadWeak(c, f) \/ ImgErrorWeak(c, f)
              \/ \E p \in ProgressValues :
                    ImgProgressSet(c, f, p) \/ ImgProgressWeak(c, f, p)
FairBind ==
    \A c \in Controllers :
        /\ WF_vars(ReportSet(c)) /\ WF_vars(ReportWeak(c))
        /\ WF_vars(ThrottleElapse(c))
SpecBind == InitBind /\ [][NextBind]_vars /\ FairBind

\* pages of hook controllers on which a visibility event or a retryLoad call
\* reaches a controller only when it has no fetch in flight and no retry
\* timer pending, so that every load is a single logical load; the tally of
\* each load is kept
InitSingle ==
    /\ InitPage /\ InitSrc /\ impl \in Hooks /\ tallied = TRUE
    /\ visHook = "useIntersectionObserver" /\ once = FALSE
    /\ retryCount \in 0..MaxRetryCount
    /\ config = [retryCount |-> {retryCount}]
    /\ priority = [c \in Controllers |-> FALSE]
    /\ ioSupported = TRUE
    /\ inBounds = [c \in Controllers |-> FALSE]
NextSingle ==
    \E c \in Controllers :
        \/ /\ Pending(c) = 0
           /\ \/ IntersectSet(c) \/ RetryLoadSet(c)
              \/ IntersectWeak(c) \/ RetryLoadWeak(c)
              \/ \E v \in BOOLEAN : MountWeak(c, v)
        \/ MountSet(c) \/ LeaveHook(c) \/ UnmountSet(c) \/ UnmountWeak(c)
        \/ \E f \in BagToSet(inflight[c]) :
              \/ ImgLoadSet(c, f) \/ ImgErrorSet(c, f)
              \/ ImgLoadWeak(c, f) \/ ImgErrorWeak(c, f)
              \/ \E p \in ProgressValues :
                    ImgProgressSet(c, f, p) \/ ImgProgressWeak(c, f, p)
        \/ \E t \in BagToSet(timers[c]) :
              RetryTimerSet(c, t) \/ RetryTimerWeak(c, t)
SpecSingle == InitSingle /\ [][NextSingle]_vars

\* pages of the two implementations whose cache is keyed by URL, the second
\* controller showing the same image as the first or another one
InitCache ==
    /\ InitState /\ impl \in {"SetHook", "LazyPicture"}
    /\ src \in [Controllers -> {Url, OtherUrl}] /\ src[1] = Url
    /\ retryCount \in 0..(MaxRetryCount - 1)
    /\ config = [retryCount |-> {retryCount}]
    /\ priority = [c \in Controllers |-> FALSE]
    /\ ioSupported = TRUE
    /\ inBounds = [c \in Controllers |-> FALSE]
SpecCache == InitCache /\ [][NextSetPicture]_vars

\* pages of hook controllers whose caller leaves the retry options out: the
\* hook called with no config object, or the WeakMap-keyed hook called
\* through LazyImage with the retryDelay prop not given and the retryCount
\* prop given or not
CallerConfigs ==
    {<< >>} \cup {LazyImageConfig([retryCount |-> r, retryDelay |-> {}]) :
                      r \in {{}, {1}}}
InitDefaults ==
    /\ InitState /\ InitSrc /\ impl \in Hooks
    /\ config \in CallerConfigs
    /\ config # << >> => impl = "WeakMapHook"
    /\ retryCount = EffectiveRetryCount(config)
    /\ priority = [c \in Controllers |-> FALSE]
    /\ ioSupported = TRUE
    /\ inBounds = [c \in Controllers |-> FALSE]
NextDefaults == NextSet \/ NextWeak
SpecDefaults == InitDefaults /\ [][NextDefaults]_vars

\* a page of LazyImage components (the WeakMap-keyed hook), the first of them
\* with the priority prop
InitPriority ==
    /\ InitLoad /\ impl = "WeakMapHook"
    /\ priority \in [Controllers -> BOOLEAN] /\ priority[1]
    /\ ioSupported = TRUE
    /\ inBounds = [c \in Controllers |-> FALSE]
SpecPriority == InitPriority /\ [][NextWeak]_vars

----
(***************************************************************************)
(* Properties                                                              *)
(***************************************************************************)
Mounted(c) == mountState[c] = "mounted"

\* the identifier is marked loaded in the cache: by any controller in the
\* Set and the Map, by some element in the WeakMap
MarkedLoaded(u) ==
    IF impl = "WeakMapHook"
    THEN \E d \in Controllers : imageCacheWeak[d] = u
    ELSE u \in imageCache

\* C1: the status of a controller changes only along idle -> loading,
\* loading -> success, loading -> error, and into loading from another status
\* only by an explicit retryLoad of that controller.
C1_StatusPath ==
    [][\A c \in Controllers :
          status'[c] # status[c] =>
             \/ status[c] = "idle" /\ status'[c] = "loading"
             \/ status[c] = "loading" /\ status'[c] \in {"success", "error"}
             \/ /\ status'[c] = "loading"
                /\ op'.name = "retryLoad" /\ op'.c = c]_vars

\* C2: the failure that completes retryCount + 1 failed attempts in a row
\* (the first attempt and retryCount automatic retries) since the counter was
\* last reset leaves a mounted controller in status error with no new retry
\* timer, and from then on no step other than its retryLoad starts a network
\* fetch or a retry timer for it.
C2_NoAutomaticRetryAfterBudget ==
    [][\A c \in Controllers :
          Mounted(c) =>
             /\ (failures[c] = retryCount /\ failures'[c] = retryCount + 1) =>
                   /\ status'[c] = "error"
                   /\ BagCardinality(timers'[c]) <= BagCardinality(timers[c])
             /\ (failures[c] >= retryCount + 1
                    /\ ~(op'.name = "retryLoad" /\ op'.c = c)) =>
                   /\ netFetches'[c] = netFetches[c]
                   /\ BagCardinality(timers'[c]) <= BagCardinality(timers[c])]_vars

\* retryLoad of controller c is the step just taken
IsRetryLoad(c) == op'.name = "retryLoad" /\ op'.c = c

\* the cache lookup of loadImage of a hook controller hits
CacheHit(c) ==
    \/ impl = "SetHook" /\ src[c] \in imageCache
    \/ impl = "WeakMapHook" /\ imageCacheWeak[c] = src[c]

\* the last operation was retryLoad of a hook controller in status error with
\* an identifier bound
RetriedFromError ==
    /\ impl \in Hooks
    /\ op.name = "retryLoad" /\ op.from = "error"
    /\ src[op.c] # ""

C4_BackoffDelays ==
    \A c \in Controllers :
        \A t \in BagToSet(timers[c]) :
            t.n <= retryCount => t.delay = RetryDelay * Pow2(t.n - 1)

\* C5: when the identifier of a mounted hook controller has been marked loaded
\* in the cache (by whichever controller), a load start of that controller
\* (visibility, retry timer or retryLoad) sets status success, progress 100
\* and the real URL and issues no network fetch.
C5_CacheHitNoFetch ==
    [][\A c \in Controllers :
          (/\ impl \in Hooks /\ mountState'[c] = "mounted" /\ src[c] # ""
           /\ MarkedLoaded(src[c])
           /\ op'.c = c /\ op'.name \in {"visible", "timer", "retryLoad"}) =>
             /\ status'[c] = "success"
             /\ loadProgress'[c] = 100
             /\ imageUrl'[c] = src[c]
             /\ netFetches' = netFetches]_vars

\* C6: a visibility event issues a network fetch of an identifier only if no
\* controller has issued a fetch of that identifier before.
C6_FetchedAtMostOnce ==
    [][\A c \in Controllers :
          (op'.name = "visible" /\ op'.c = c /\ netFetches'[c] > netFetches[c]) =>
             \A d \in Controllers : src[d] = src[c] => netFetches[d] = 0]_vars

\* C7: the retry timer of an unmounted controller, when it fires, starts no
\* fetch and changes neither status, progress, asset reference nor the retry
\* counter of the controller.
C7_TimerAfterUnmount ==
    [][\A c \in Controllers :
          (mountState[c] = "unmounted" /\ op'.name = "timer" /\ op'.c = c) =>
             /\ netFetches' = netFetches
             /\ inflight' = inflight
             /\ status'[c] = status[c]
             /\ loadProgress'[c] = loadProgress[c]
             /\ imageUrl'[c] = imageUrl[c]
             /\ retryAttemptsRef'[c] = retryAttemptsRef[c]
             /\ retryCountState'[c] = retryCountState[c]]_vars

\* C8: a load, error or progress event of a fetch of an unmounted controller
\* changes neither the controller's state nor its retry counter and schedules
\* no retry timer.
C8_FetchAfterUnmount ==
    [][\A c \in Controllers :
          (mountState[c] = "unmounted" /\ op'.c = c
              /\ op'.name \in {"load", "error", "progress"}) =>
             /\ status'[c] = status[c]
             /\ loadProgress'[c] = loadProgress[c]
             /\ imageUrl'[c] = imageUrl[c]
             /\ retryAttemptsRef'[c] = retryAttemptsRef[c]
             /\ retryCountState'[c] = retryCountState[c]
             /\ timers' = timers]_vars

\* C9: retryLoad of a controller whose status is not error, or which has no
\* identifier bound, changes neither status, progress, asset reference nor
\* the retry counter and issues no fetch.
C9_RetryLoadNoOp ==
    [][\A c \in Controllers :
          (IsRetryLoad(c) /\ (status[c] # "error" \/ src[c] = "")) =>
             /\ status'[c] = status[c]
             /\ loadProgress'[c] = loadProgress[c]
             /\ imageUrl'[c] = imageUrl[c]
             /\ retryAttemptsRef'[c] = retryAttemptsRef[c]
             /\ netFetches' = netFetches]_vars

\* C10: a controller never has more than one network attempt or pending
\* retry timer at a time.
C10_SequentialAttempts ==
    \A c \in Controllers : Pending(c) <= 1

\* C11: in a mounted hook controller the exposed progress never decreases at a
\* progress, load or error event of one of its fetches, is 100 after a load
\* event, and is 0 when a fetch is started.
C11_ProgressMonotone ==
    [][\A c \in Controllers :
          (impl \in Hooks /\ Mounted(c) /\ mountState'[c] = "mounted"
              /\ op'.c = c) =>
             /\ op'.name \in {"progress", "load", "error"} =>
                    loadProgress'[c] >= loadProgress[c]
             /\ op'.name = "load" => loadProgress'[c] = 100
             /\ op'.fetched => loadProgress'[c] = 0]_vars

\* the retry attempt counter of a controller: retryAttemptsRef.current in the
\* hooks, the retryCount state in LazyPicture
Counter(c) == IF impl \in Hooks THEN retryAttemptsRef[c] ELSE retryCountState[c]

\* C12: the retry attempt counter of every controller is between 0 and
\* retryCount (maxRetries) in every reachable state.
C12_CounterBounded ==
    \A c \in Controllers : 0 <= Counter(c) /\ Counter(c) <= retryCount

\* C13 (as stated): the counter of a mounted controller is incremented by
\* every failed attempt, is reset to 0 by retryLoad and changes at no other
\* step.
C13_CounterEachFailure ==
    [][\A c \in Controllers :
          Mounted(c) =>
             /\ (op'.name = "error" /\ op'.c = c) => Counter(c)' = Counter(c) + 1
             /\ IsRetryLoad(c) => Counter(c)' = 0
             /\ ~(op'.c = c /\ op'.name \in {"error", "retryLoad"}) =>
                    Counter(c)' = Counter(c)]_vars

\* a failed attempt of controller c after which an automatic retry is made:
\* every failure in LazyPicture, a failure with the counter below retryCount
\* in the hooks
FailureRetried(c) ==
    /\ op'.name = "error" /\ op'.c = c
    /\ impl \in Hooks => retryAttemptsRef[c] < retryCount

\* C13 (amended): the counter of a mounted controller starts at 0, is
\* incremented by every failed attempt that is followed by an automatic retry,
\* is left unchanged by the failure that uses up the retry budget of a hook,
\* is reset to 0 by retryLoad, and changes at no other step (visibility
\* events, successful loads, cache hits, timers, progress events).
C13_CounterFrame ==
    /\ \A c \in Controllers : Counter(c) = 0
    /\ [][\A c \in Controllers :
             Mounted(c) =>
                /\ FailureRetried(c) => Counter(c)' = Counter(c) + 1
                /\ IsRetryLoad(c) => Counter(c)' = 0
                /\ ~(FailureRetried(c) \/ IsRetryLoad(c)) =>
                       Counter(c)' = Counter(c)]_vars

\* C13 witness: a visibility event of a controller whose counter is above 0
\* has started a new fetch
C13_Witness ==
    /\ op.name = "visible" /\ op.c \in Controllers
    /\ op.fetched /\ Counter(op.c) > 0

\* C14: in a mounted hook controller the asset reference is the placeholder
\* while status is idle or loading, the real URL while status is success and
\* the error asset while status is error.
C14_AssetMatchesStatus ==
    \A c \in Controllers :
        (impl \in Hooks /\ Mounted(c)) =>
            imageUrl[c] = CASE status[c] \in {"idle", "loading"} -> Placeholder
                            [] status[c] = "success" -> src[c]
                            [] status[c] = "error" -> ErrorImage

\* C15: a mounted controller with the priority prop and an identifier has
\* left idle: its load was started by the mount, visible or not.
C15_PriorityLoadsAtMount ==
    \A c \in Controllers :
        (priority[c] /\ Mounted(c) /\ src[c] # "") => status[c] # "idle"

\* the number of observers that observe a region of controller c
LiveObservers(c) == (IF observing[c] THEN 1 ELSE 0) + staleObserving[c]

C17_NoRegistrationAfterUnmount ==
    \A c \in Controllers :
        mountState[c] = "unmounted" => LiveObservers(c) = 0 /\ ~listening[c]

\* C18: a mounted hook controller whose status has become success, by a
\* completed fetch or by a cache hit, no longer observes its region, and a
\* visibility event in status success issues no fetch and changes neither
\* status, progress nor asset reference.
C18_SuccessStopsObserving ==
    [][\A c \in Controllers :
          (impl \in Hooks /\ Mounted(c) /\ mountState'[c] = "mounted") =>
             /\ (status[c] # "success" /\ status'[c] = "success") =>
                    ~observing'[c] /\ ~listening'[c]
             /\ (status[c] = "success" /\ op'.name = "visible" /\ op'.c = c) =>
                    /\ ~op'.fetched
                    /\ status'[c] = status[c]
                    /\ loadProgress'[c] = loadProgress[c]
                    /\ imageUrl'[c] = imageUrl[c]]_vars

\* the bounds of the model leave no room for another fetch
Exhausted == TotalPending >= MaxPending \/ TotalFetches >= MaxFetches

\* C19: a hook controller with an identifier whose region lies within the
\* expanded bounds when it binds starts its load: in the mount step itself
\* where the effect samples the position (the WeakMap-keyed hook, and the
\* scroll fallback of the Set-keyed hook), and by the report the observer owes
\* for a region within the bounds, with no scroll, where an observer is bound.
C19_LoadsWhenBoundInBounds ==
    /\ [][\A c \in Controllers :
             (/\ mountState[c] = "init" /\ mountState'[c] = "mounted"
              /\ inBounds[c] /\ src[c] # ""
              /\ impl = "WeakMapHook" \/ ~ioSupported) =>
                status'[c] # "idle"]_vars
    /\ \A c \in Controllers :
          (/\ Mounted(c) /\ observing[c] /\ inBounds[c]
           /\ src[c] # "" /\ status[c] = "idle") ~>
             (status[c] # "idle" \/ ~Mounted(c) \/ ~inBounds[c] \/ Exhausted)

\* C19 witness: without IntersectionObserver, a controller of the Set-keyed
\* hook has gone from idle to loading by a position sample of its fallback
\* that found the region within the bounds, and removed its listener
C19_Witness ==
    /\ impl = "SetHook" /\ ~ioSupported
    /\ op.name = "visible" /\ op.from = "idle" /\ op.fetched
    /\ status[op.c] = "loading" /\ ~listening[op.c]

\* C20: without IntersectionObserver, whenever the region of a mounted hook
\* controller with a registered scroll listener lies within the expanded
\* bounds, the listener's function is eventually called for that position
\* (it then removes the listener), unless the region leaves the bounds or the
\* controller is unmounted first; no further scroll event is assumed.
C20_FallbackEventuallyLoads ==
    \A c \in Controllers :
        (~ioSupported /\ Mounted(c) /\ listening[c] /\ inBounds[c]) ~>
            (~listening[c] \/ ~Mounted(c) \/ ~inBounds[c])

\* C21: without IntersectionObserver the function of the scroll fallback
\* fires for a region within the bounds at most once per binding: it fires
\* only from the listener registered by the binding (or the call the effect
\* makes itself), the step in which it fires unregisters the listener, a
\* listener once unregistered is not registered again while the controller
\* is mounted, and a scroll event that meets no listener starts no load.
C21_FallbackFiresOnce ==
    [][\A c \in Controllers :
          ~ioSupported =>
             /\ (op'.name = "visible" /\ op'.c = c) =>
                   /\ listening[c] \/ mountState[c] = "init"
                   /\ ~listening'[c]
             /\ (~listening[c] /\ mountState[c] # "init") => ~listening'[c]
             /\ (~listening[c] /\ op'.name = "scroll" /\ op'.c = c) =>
                   /\ status'[c] = status[c]
                   /\ netFetches' = netFetches]_vars

\* C21 witness: after the fallback of a controller has fired and removed its
\* listener, a later scroll event has moved the region and called nothing
C21_Witness ==
    /\ ~ioSupported /\ op.name = "scroll" /\ op.c \in Controllers
    /\ Mounted(op.c) /\ ~listening[op.c]
    /\ op.from = "loading" /\ status[op.c] = "loading"

\* the times at which func is to be executed for the calls at the times of
\* log, last being the time of the last execution so far (-1: none): a call
\* executes func exactly when it is the first or at least ThrottleDelay after
\* the last execution
RECURSIVE Executed(_, _)
Executed(log, last) ==
    IF log = << >> THEN << >>
    ELSE IF last = -1 \/ Head(log) - last >= ThrottleDelay
         THEN <<Head(log)>> \o Executed(Tail(log), Head(log))
         ELSE Executed(Tail(log), last)

\* C22: for every sequence of calls of a throttled function at non-decreasing
\* clock times, func has been executed exactly at the calls that are the
\* first or come at least ThrottleDelay after the last execution, any two
\* executions are at least ThrottleDelay apart, and no execution happens at
\* another time than that of the call that caused it.
C22_ThrottleContract ==
    /\ runLog = Executed(callLog, -1)
    /\ \A i, j \in 1..Len(runLog) :
          i < j => runLog[j] - runLog[i] >= ThrottleDelay
    /\ callLog # << >> => runLog # << >> /\ runLog[1] = callLog[1]

\* C22 witness: a call inside the window was dropped, and a later call, made
\* when the window measured from the last execution had passed, executed func
C22_Witness ==
    /\ Len(callLog) = 3 /\ Len(runLog) = 2
    /\ callLog[2] - callLog[1] < ThrottleDelay
    /\ runLog[2] = callLog[3]
    /\ callLog[3] - callLog[2] < ThrottleDelay

\* the caller gave no value for key k of the config
Omitted(k) == k \notin DOMAIN config \/ config[k] = {}

\* C23: a hook controller whose caller gave no retryCount and no retryDelay,
\* directly or through LazyImage with the props left out, uses retryCount 3
\* and retryDelay 1000: it reaches status error by a failure only after 4
\* failed attempts (3 automatic retries).
C23_DefaultsWhenOmitted ==
    (impl \in Hooks /\ Omitted("retryCount") /\ Omitted("retryDelay")) =>
        /\ EffectiveRetryDelay(config) = RetryDelay
        /\ \A c \in Controllers :
              (/\ op.name = "error" /\ op.c = c /\ op.from # "error"
               /\ Mounted(c) /\ status[c] = "error") =>
                 failures[c] >= DefaultRetryCount + 1

\* C24: a hook controller with no identifier bound (empty data-src) issues
\* no fetch and stays idle, with the placeholder and progress 0, whatever
\* visibility events, scroll samples and retryLoad calls it receives.
C24_NoIdentifierStaysIdle ==
    \A c \in Controllers :
        (impl \in Hooks /\ src[c] = "") =>
            /\ status[c] = "idle"
            /\ netFetches[c] = 0 /\ inflight[c] = EmptyBag /\ timers[c] = EmptyBag
            /\ imageUrl[c] = Placeholder /\ loadProgress[c] = 0

\* C24 witness: a controller with no identifier has just received a
\* visibility event or a retryLoad call
C24_Witness ==
    /\ impl \in Hooks /\ op.c \in Controllers /\ src[op.c] = ""
    /\ op.name \in {"visible", "retryLoad"} /\ Mounted(op.c)

Terminal(c) == status[c] \in {"success", "error"}

\* C25: a failed attempt of a mounted controller ends in a scheduled retry or
\* in status error; when every fetch completes and every timer fires, a
\* controller in status loading reaches success or error; and a controller in
\* status success or error keeps that status until its retryLoad is called.
C25_LoadTerminates ==
    /\ [][\A c \in Controllers :
             (Mounted(c) /\ op'.name = "error" /\ op'.c = c) =>
                \/ status'[c] = "error"
                \/ BagCardinality(timers'[c]) > BagCardinality(timers[c])]_vars
    /\ \A c \in Controllers :
          (Mounted(c) /\ status[c] = "loading") ~> (~Mounted(c) \/ Terminal(c))
    /\ [][\A c \in Controllers :
             (Mounted(c) /\ mountState'[c] = "mounted" /\ Terminal(c)
                 /\ status'[c] # status[c]) => IsRetryLoad(c)]_vars

\* C26: in every reachable state the exposed progress of a hook controller is
\* an integer in 0..100, is 100 when its status is success and 0 when its
\* status is idle or error.
C26_ProgressMatchesStatus ==
    \A c \in Controllers :
        impl \in Hooks =>
            /\ loadProgress[c] \in 0..100
            /\ status[c] = "success" => loadProgress[c] = 100
            /\ status[c] \in {"idle", "error"} => loadProgress[c] = 0

\* C27: the cache keyed by URL only grows: a URL enters it only in the step
\* in which a fetch of that URL completes successfully, no step removes a
\* URL, and the load of a URL that is in the cache already leaves the cache
\* unchanged.
C27_CacheOnlyGrows ==
    [][/\ imageCache \subseteq imageCache'
       /\ imageCache' # imageCache =>
             /\ op'.name = "load"
             /\ imageCache' = imageCache \cup {src[op'.c]}
       /\ (op'.name = "load" /\ src[op'.c] \in imageCache) =>
             imageCache' = imageCache]_vars

\* C27 witness: both URLs are in the cache and the last step was the load of
\* a fetch of a controller that had status success already
C27_Witness ==
    /\ imageCache = {Url, OtherUrl}
    /\ op.name = "load" /\ op.from = "success"

\* the four fields of profile p
Fields(p) == <<p.username, p.email, p.phone, p.highscore>>

\* C28: after any sequence of POST requests table profile holds at most one
\* row, with id 1, whose username, email, phone and highscore are those of
\* the most recent POST; before any POST the table is empty; and what GET
\* responds are the fields of the row, or the zeroed profile when there is
\* no row.
C28_SingleProfile ==
    /\ [](/\ Cardinality(profileTable) <= 1
          /\ \A r \in profileTable : r.id = 1
          /\ IF lastPost = << >>
             THEN profileTable = {}
             ELSE \E r \in profileTable : Fields(r) = Fields(lastPost[1]))
    /\ [][response' # response =>
             Fields(response'[1]) =
                IF lastPost = << >> THEN Fields(ZeroedProfile)
                ELSE Fields(lastPost[1])]_vars

\* C28 witness: a GET after a POST that updated the row of an earlier POST
\* has answered with the fields of the later POST
C28_Witness ==
    /\ lastPost # << >> /\ response # << >>
    /\ sqliteSequence = 1
    /\ Fields(response[1]) = Fields(lastPost[1])
    /\ lastPost[1].highscore = MaxScore /\ lastPost[1].username = "bob"

\* C29: in fire-once mode of a visibility hook, once an intersecting entry
\* has been reported to a mounted component, no further callback is
\* delivered and the visibility flag stays true, also after the ref function
\* has been called with another element.
C29_FireOnce ==
    [][(once /\ firedOnce /\ visMount = "mounted" /\ visMount' = "mounted") =>
          /\ visOp' # "callback"
          /\ visibleFlag']_vars

\* C30: a single logical load of a hook controller (one visibility event
\* or one retryLoad call, no other arriving while it has a fetch in flight
\* or a retry timer pending) issues at most retryCount + 1 network fetches
\* and sets at most retryCount retry timers.
C30_SingleLoadBudget ==
    \A c \in Controllers :
        /\ tally[c].fetches <= retryCount + 1
        /\ tally[c].timers <= retryCount

\* C30 witness: a single load has used its whole budget of retryCount + 1
\* fetches and retryCount timers, and its last failure has set status error
C30_Witness ==
    /\ tallied /\ retryCount > 0 /\ op.name = "error" /\ op.c \in Controllers
    /\ status[op.c] = "error"
    /\ tally[op.c].fetches = retryCount + 1
    /\ tally[op.c].timers = retryCount

\* C31: in LazyPicture the retry chain started by the one visibility trigger
\* of a component stops after at most maxRetries failed attempts: no
\* component sees more failures of its image than maxRetries.
C31_PictureRetriesBounded ==
    impl = "LazyPicture" =>
        \A c \in Controllers : failures[c] <= retryCount

\* the handlers that call handleAction
ItemActions == {"add", "update", "delete", "move", "select-all",
                "clear-completed", "load"}

\* C32: in the todo list the history never holds more than 10 entries,
\* historyIndex lies between -1 and the index of the last entry, and it is
\* -1 exactly when the history is empty.
C32_HistoryBounded ==
    /\ Len(state.history) <= HistoryLimit
    /\ state.historyIndex >= -1
    /\ state.historyIndex <= Len(state.history) - 1
    /\ (state.historyIndex = -1) <=> (state.history = << >>)

\* C32 witness: an action on a full history has pushed its entry and dropped
\* the oldest one, the list before the first todo was added
C32_Witness ==
    /\ todoOp.name \in ItemActions
    /\ Len(state.history) = HistoryLimit
    /\ state.historyIndex = HistoryLimit - 1
    /\ state.history[1] # [items |-> << >>]
    /\ state.history[HistoryLimit] = [items |-> todoOp.before]

\* C33: an undo directly after an action restores the items as they were
\* immediately before that action.
C33_UndoRestoresBefore ==
    [][(todoOp.name \in ItemActions /\ todoOp'.name = "undo") =>
          state'.items = todoOp.before]_vars

\* C34: an undo that changed the items, directly followed by a redo, leaves
\* the items as they were before the undo.
C34_UndoRedoIdentity ==
    [][(todoOp.name = "undo" /\ state.items # todoOp.before
           /\ todoOp'.name = "redo") =>
          state'.items = todoOp.before]_vars

\* the 0-based index of todo x in items
IndexOf(items, x) == CHOOSE i \in 0..(Len(items) - 1) : items[i + 1] = x

\* the multiset of the entries of s
SeqToBag(s) ==
    [x \in {s[i] : i \in DOMAIN s} |-> Cardinality({i \in DOMAIN s : s[i] = x})]

\* C35: dropping displayed todo A onto displayed todo B moves A, and no
\* other item, to the position B had in the item list, and leaves the
\* multiset of items unchanged, whatever the filter and the search term.
C35_DropMovesDragged ==
    [][todoOp'.name = "move" =>
          /\ state'.items =
                InsertAt(RemoveAt(state.items, IndexOf(state.items, todoOp'.a)),
                         IndexOf(state.items, todoOp'.b), todoOp'.a)
          /\ SeqToBag(state'.items) = SeqToBag(state.items)]_vars

\* C36: in the typing game at most one countdown interval is registered at
\* any time, timeLeft stays within 0..60, and whenever timeLeft goes down
\* it goes down by exactly 1 (one tick of the one interval per second).
C36_OneCountdown ==
    /\ [](Len(game.intervals) + leaked <= 1)
    /\ [](game.timeLeft \in 0..StartTime)
    /\ [][game'.timeLeft < game.timeLeft =>
             game'.timeLeft = game.timeLeft - 1]_vars

\* C37: the highscore stored in the row of the profile never decreases,
\* whatever the order in which the POSTs of ended games and of saved
\* profile edits reach the server.
C37_HighscoreNeverDecreases ==
    [][\A r \in SelectId1 :
          \A q \in {x \in profileTable' : x.id = 1} :
             q.highscore >= r.highscore]_vars

TypeOK ==
    /\ impl \in Impls
    /\ \A c \in Controllers :
        /\ status[c] \in {"idle", "loading", "success", "error"}
        /\ Pending(c) <= MaxPending

====
